---------------------------- MODULE Spec2Model ----------------------------
(***************************************************************************)
(* A state-machine model of the traffic-sim simulation engine: the entity  *)
(* store (SimulationState), the Traffic Manager (behavior decisions,       *)
(* spawning, despawning), the Physics Engine and the two compute backends. *)
(*                                                                         *)
(* Numbers.  The program computes in f32; the model computes in integers   *)
(* with fixed units:                                                       *)
(*   lengths    decimetres (dm)          speeds   dm/s                     *)
(*   time       deciseconds (ds)         angles   whole degrees            *)
(*   factors    tenths                   progress thousandths              *)
(* Every division rounds as written at its place (\div is floor,           *)
(* RoundDiv is round-half-up).                                             *)
(***************************************************************************)
EXTENDS Integers, Sequences, FiniteSets, TLC

(***************************************************************************)
(* Arithmetic helpers                                                      *)
(***************************************************************************)
Abs(a) == IF a < 0 THEN -a ELSE a

Min(a, b) == IF a < b THEN a ELSE b

Max(a, b) == IF a > b THEN a ELSE b

RoundDiv(a, b) == (2 * a + b) \div (2 * b)

RECURSIVE SqrtSearch(_, _, _)
SqrtSearch(n, lo, hi) ==
    IF lo >= hi THEN lo
    ELSE LET mid == (lo + hi + 1) \div 2
         IN  IF mid * mid <= n THEN SqrtSearch(n, mid, hi)
                               ELSE SqrtSearch(n, lo, mid - 1)

\* floor of the square root
ISqrt(n) == SqrtSearch(n, 0, Min(n, 46340))

\* square root rounded to the nearest integer
SqrtR(n) == (ISqrt(4 * n) + 1) \div 2

(***************************************************************************)
(* Trigonometry on whole degrees.  SinTable[k + 1] = 10000 * sin(k / 2     *)
(* degrees), k = 0 .. 180.                                                 *)
(***************************************************************************)
SinTable ==
   << 0, 87, 175, 262, 349, 436, 523, 610, 698, 785, 872, 958,
      1045, 1132, 1219, 1305, 1392, 1478, 1564, 1650, 1736, 1822, 1908, 1994,
      2079, 2164, 2250, 2334, 2419, 2504, 2588, 2672, 2756, 2840, 2924, 3007,
      3090, 3173, 3256, 3338, 3420, 3502, 3584, 3665, 3746, 3827, 3907, 3987,
      4067, 4147, 4226, 4305, 4384, 4462, 4540, 4617, 4695, 4772, 4848, 4924,
      5000, 5075, 5150, 5225, 5299, 5373, 5446, 5519, 5592, 5664, 5736, 5807,
      5878, 5948, 6018, 6088, 6157, 6225, 6293, 6361, 6428, 6494, 6561, 6626,
      6691, 6756, 6820, 6884, 6947, 7009, 7071, 7133, 7193, 7254, 7314, 7373,
      7431, 7490, 7547, 7604, 7660, 7716, 7771, 7826, 7880, 7934, 7986, 8039,
      8090, 8141, 8192, 8241, 8290, 8339, 8387, 8434, 8480, 8526, 8572, 8616,
      8660, 8704, 8746, 8788, 8829, 8870, 8910, 8949, 8988, 9026, 9063, 9100,
      9135, 9171, 9205, 9239, 9272, 9304, 9336, 9367, 9397, 9426, 9455, 9483,
      9511, 9537, 9563, 9588, 9613, 9636, 9659, 9681, 9703, 9724, 9744, 9763,
      9781, 9799, 9816, 9833, 9848, 9863, 9877, 9890, 9903, 9914, 9925, 9936,
      9945, 9954, 9962, 9969, 9976, 9981, 9986, 9990, 9994, 9997, 9998, 10000,
      10000 >>

\* 10000 * sin(h / 2 degrees) for a half-degree count h in 0 .. 180
SinHalf(h) == SinTable[h + 1]

\* 10000 * sin(a degrees), any integer a
Sin(a) ==
    LET m == a % 360
    IN  IF m <= 90 THEN SinHalf(2 * m)
        ELSE IF m <= 180 THEN SinHalf(2 * (180 - m))
        ELSE IF m <= 270 THEN -SinHalf(2 * (m - 180))
        ELSE -SinHalf(2 * (360 - m))

Cos(a) == Sin(a + 90)

\* atan2 in the first quadrant (x, y >= 0), to the nearest degree: the number
\* of half-degree boundaries a - 1/2 the direction (x, y) lies on or above
RECURSIVE AtanSearch(_, _, _, _)
AtanSearch(y, x, lo, hi) ==
    IF lo >= hi THEN lo
    ELSE LET a == (lo + hi + 1) \div 2
         IN  IF y * SinHalf(181 - 2 * a) - x * SinHalf(2 * a - 1) >= 0
             THEN AtanSearch(y, x, a, hi)
             ELSE AtanSearch(y, x, lo, a - 1)

AtanQ(y, x) == AtanSearch(y, x, 0, 90)

\* f32::atan2, in degrees, result in -179 .. 180
Atan2(y, x) ==
    LET Signed(q) == IF x >= 0 /\ y >= 0 THEN q
                     ELSE IF x < 0 /\ y >= 0 THEN 180 - q
                     ELSE IF x < 0 THEN (IF q = 0 THEN 180 ELSE q - 180)
                     ELSE -q
    IN  IF x = 0 /\ y = 0 THEN 0 ELSE Signed(AtanQ(Abs(y), Abs(x)))

(***************************************************************************)
(* Vectors (nalgebra Vector2 / Point2) as records [x, y]                   *)
(***************************************************************************)
Vec(x, y) == [x |-> x, y |-> y]

VSub(a, b) == Vec(a.x - b.x, a.y - b.y)

VAdd(a, b) == Vec(a.x + b.x, a.y + b.y)

Magnitude(v) == SqrtR(v.x * v.x + v.y * v.y)

Dot(a, b) == a.x * b.x + a.y * b.y

\* the point at `radius` from `center` in direction `angle` (degrees)
Polar(center, radius, angle) ==
    Vec(center.x + RoundDiv(radius * Cos(angle), 10000),
        center.y + RoundDiv(radius * Sin(angle), 10000))

\* v.normalize() * speed
Scaled(v, speed) ==
    LET Over(m) == IF m = 0 THEN Vec(0, 0)
                   ELSE Vec(RoundDiv(v.x * speed, m), RoundDiv(v.y * speed, m))
    IN  Over(Magnitude(v))

\* angle * radius for an angle in degrees: the arc length in dm
\* (pi / 180 = 71 / 4068)
ArcLength(angle_deg, radius) == (angle_deg * radius * 71) \div 4068

\* distance / radius as an angle in whole degrees
ArcAngle(distance, radius) == (distance * 4068) \div (71 * radius)

(***************************************************************************)
(* Option<T>::None for the u32 / f32 options of Car                        *)
(***************************************************************************)
None == -1

(***************************************************************************)
(* StdRng.  The generator is modelled as a full-period congruential        *)
(* generator on 0 .. RngMod - 1: a deterministic stream fixed by the seed, *)
(* one step per draw.  A draw returns [val, rng].                          *)
(***************************************************************************)
RngMod == 16

seed_from_u64(seed) == seed % RngMod

NextRng(rng) == (5 * rng + 3) % RngMod

\* rng.gen::<f32>(): the value is val / RngMod in [0, 1)
gen_f32(rng) == [val |-> NextRng(rng), rng |-> NextRng(rng)]

\* rng.gen_range(0..n)
gen_range(rng, n) == [val |-> (NextRng(rng) * n) \div RngMod, rng |-> NextRng(rng)]

\* rng.gen_range(lo..=hi)
gen_range_inclusive(rng, lo, hi) ==
    [val |-> lo + ((hi - lo) * NextRng(rng)) \div (RngMod - 1), rng |-> NextRng(rng)]

\* rng.gen_bool(0.5)
gen_bool_half(rng) == [val |-> 2 * NextRng(rng) < RngMod, rng |-> NextRng(rng)]

\* ten times the standard normal quantile of (u + 1/2) / RngMod
NormalTable == << -19, -13, -10, -8, -6, -4, -2, -1, 1, 2, 4, 6, 8, 10, 13, 19 >>

\* Normal::new(1.0, sigma).sample(rng) in thousandths, sigma = sigma100 / 100
sample_normal(rng, sigma100) ==
    [val |-> 1000 + sigma100 * NormalTable[(NextRng(rng) % 16) + 1],
     rng |-> NextRng(rng)]

(***************************************************************************)
(* Configuration (RouteConfig, CarsConfig): immutable, validated outside.  *)
(***************************************************************************)
EntryPoint(id, entry_type, angle, lane) ==
    [id |-> id, entry_type |-> entry_type, angle |-> angle, lane |-> lane]

ExitPoint(angle, lane) == [angle |-> angle, lane |-> lane]

CarType(id, weight, length, max_acceleration, max_deceleration, preferred_speed) ==
    [id |-> id, weight |-> weight, length |-> length,
     max_acceleration |-> max_acceleration,
     max_deceleration |-> max_deceleration,
     preferred_speed |-> preferred_speed]

\* following_distance_factor and speed_variance in tenths, lane_change_frequency
\* in tenths per minute, exit_probability in percent
DriverBehavior(weight, fdf, lcf, variance, exit_probability) ==
    [weight |-> weight, following_distance_factor |-> fdf,
     lane_change_frequency |-> lcf, speed_variance |-> variance,
     exit_probability |-> exit_probability]

EntryInterval(entry_id, min_interval, max_interval) ==
    [entry_id |-> entry_id, min_interval |-> min_interval,
     max_interval |-> max_interval]

\* A two-lane donut: lane radii 570 and 610 dm, two entries that both use the
\* spawn-rate interval (1 car/s), one exit.
DonutConfig ==
    [geometry_type |-> "donut", center |-> Vec(0, 0),
     inner_radius |-> 550, lane_width |-> 40, lane_count |-> 2,
     highway_width |-> None, loop_radius |-> None,
     entries |-> << EntryPoint("main_entry", "on_ramp", 0, 1),
                    EntryPoint("second_entry", "on_ramp", 5, 2) >>,
     exits |-> << ExitPoint(90, 1) >>,
     speed_limit |-> 300, min_speed |-> 50,
     following_distance |-> 20, lane_change_time |-> 20,
     total_cars |-> 3, spawn_rate |-> 100,
     car_types |-> << CarType("sedan", 60, 45, 30, 80, 250),
                      CarType("truck", 40, 80, 15, 60, 200) >>,
     behavior |-> [n \in {"aggressive", "normal"} |->
                     IF n = "aggressive"
                     THEN DriverBehavior(50, 8, 300, 12, 50)
                     ELSE DriverBehavior(50, 10, 300, 10, 25)],
     safety_margin |-> 20, emergency_brake_distance |-> 50,
     warning_distance |-> 150,
     entry_intervals |-> << >>]

(***************************************************************************)
(* State                                                                   *)
(*   cfg      the configuration the backend was built with                 *)
(*   backend  "Cpu" or "Gpu": the ComputeBackend variant                   *)
(*   state    the SimulationState                                          *)
(*   tm       the TrafficManager (with its BehaviorEngine)                 *)
(*   last     what the last operation did (history variable)               *)
(*   issued   every CarId handed out so far, in order (history variable)   *)
(*   log      the discrete events so far (history variable)                *)
(*   steps    how many ticks and external calls were made                  *)
(*   deferred the spawn requests that were refused, each with the tick it  *)
(*            was refused in and the tick the entry next spawned a car in  *)
(*            (history variable)                                           *)
(*   twin     a second run [backend, state, tm, log] stepped in lockstep   *)
(*            by the two-run specifications                                *)
(***************************************************************************)
VARIABLES cfg, backend, state, tm, last, issued, log, steps, deferred, twin

vars == << cfg, backend, state, tm, last, issued, log, steps, deferred, twin >>

(***************************************************************************)
(* Sequence helpers                                                        *)
(***************************************************************************)
RECURSIVE SumSeq(_)
SumSeq(s) == IF s = << >> THEN 0 ELSE Head(s) + SumSeq(Tail(s))

RECURSIVE MinSeq(_)
MinSeq(s) == IF Len(s) = 1 THEN s[1] ELSE Min(Head(s), MinSeq(Tail(s)))

\* iter().position(pred): the first index whose element passes Test, or 0
FirstIndex(s, Test(_)) ==
    IF \E i \in 1..Len(s) : Test(s[i])
    THEN CHOOSE i \in 1..Len(s) : Test(s[i]) /\ \A j \in 1..(i - 1) : ~Test(s[j])
    ELSE 0

RemoveAt(s, i) == SubSeq(s, 1, i - 1) \o SubSeq(s, i + 1, Len(s))

\* every order in which the elements of S can be listed
Orders(S) ==
    {p \in [1..Cardinality(S) -> S] : \A i, j \in 1..Cardinality(S) : p[i] = p[j] => i = j}

(***************************************************************************)
(* SimulationState (simulation/mod.rs)                                     *)
(***************************************************************************)
SimulationState_new(dt) ==
    [cars |-> << >>, time |-> 0, dt |-> dt, total_spawned |-> 0, active_cars |-> 0]

add_car(st, car) ==
    [st EXCEPT !.cars = Append(@, car),
               !.total_spawned = @ + 1,
               !.active_cars = @ + 1]

\* remove_car with the decrement moved out of the `if let Some(pos)`: the
\* counter then also drops for an id that is not on the road
C1_remove_car_counts_absent(st, id) ==
    LET IsId(c) == c.id = id
        Found(pos) == IF pos # 0
                      THEN [st EXCEPT !.cars = RemoveAt(@, pos),
                                      !.active_cars = Max(@ - 1, 0)]
                      ELSE [st EXCEPT !.active_cars = Max(@ - 1, 0)]
    IN  Found(FirstIndex(st.cars, IsId))

\* remove_car that also takes the removed car out of total_spawned
C4_remove_car_uncounts(st, id) ==
    LET IsId(c) == c.id = id
        Found(pos) == IF pos # 0
                      THEN [st EXCEPT !.cars = RemoveAt(@, pos),
                                      !.active_cars = Max(@ - 1, 0),
                                      !.total_spawned = @ - 1]
                      ELSE st
    IN  Found(FirstIndex(st.cars, IsId))

remove_car(st, id) ==
    LET IsId(c) == c.id = id
        Found(pos) == IF pos # 0
                      THEN [st EXCEPT !.cars = RemoveAt(@, pos),
                                      !.active_cars = Max(@ - 1, 0)]
                      ELSE st
    IN  Found(FirstIndex(st.cars, IsId))

get_car_index(st, id) ==
    LET IsId(c) == c.id = id IN FirstIndex(st.cars, IsId)

\* mark_car_for_exit that does not look at the flag: it picks the first car of
\* the behavior type, flagged or not
C11_mark_car_for_exit_ignores_flag(st, behavior_type) ==
    LET Wanted(c) == c.behavior_type = behavior_type
        Found(i) == IF i # 0
                    THEN [state |-> [st EXCEPT !.cars[i].marked_for_exit = TRUE,
                                               !.cars[i].exit_time = st.time],
                          found |-> TRUE]
                    ELSE [state |-> st, found |-> FALSE]
    IN  Found(FirstIndex(st.cars, Wanted))

\* returns [state, found]
mark_car_for_exit(st, behavior_type) ==
    LET Wanted(c) == c.behavior_type = behavior_type /\ ~c.marked_for_exit
        Found(i) == IF i # 0
                    THEN [state |-> [st EXCEPT !.cars[i].marked_for_exit = TRUE,
                                               !.cars[i].exit_time = st.time],
                          found |-> TRUE]
                    ELSE [state |-> st, found |-> FALSE]
    IN  Found(FirstIndex(st.cars, Wanted))

Speed(car) == Magnitude(car.velocity)

(***************************************************************************)
(* Entry geometry (simulation/traffic.rs)                                  *)
(***************************************************************************)
get_lane_radius(lane) ==
    cfg.inner_radius + cfg.lane_width \div 2 + (lane - 1) * cfg.lane_width

\* route_geom.highway_width.unwrap_or(40.0) / 2.0
HighwayHalfWidth ==
    (IF cfg.highway_width = None THEN 400 ELSE cfg.highway_width) \div 2

\* route_geom.loop_radius.unwrap_or(60.0)
LoopRadius == IF cfg.loop_radius = None THEN 600 ELSE cfg.loop_radius

calculate_donut_entry_position(entry) ==
    Polar(cfg.center, get_lane_radius(entry.lane), entry.angle)

calculate_loop_ramp_entry_position(entry) ==
    LET ramp_offset == LoopRadius + HighwayHalfWidth + 200
    IN  CASE entry.id = "ne_loop_entry" -> Vec(ramp_offset, ramp_offset)
          [] entry.id = "se_loop_entry" -> Vec(ramp_offset, -ramp_offset)
          [] entry.id = "sw_loop_entry" -> Vec(-ramp_offset, -ramp_offset)
          [] entry.id = "nw_loop_entry" -> Vec(-ramp_offset, ramp_offset)
          [] OTHER ->
               IF entry.lane \in 1..3 THEN Vec(ramp_offset, ramp_offset)
               ELSE IF entry.lane \in 4..6 THEN Vec(-ramp_offset, -ramp_offset)
               ELSE IF entry.lane \in 7..9 THEN Vec(-ramp_offset, ramp_offset)
               ELSE IF entry.lane \in 10..12 THEN Vec(ramp_offset, -ramp_offset)
               ELSE Vec(0, 0)

calculate_cloverleaf_entry_position(entry) ==
    IF entry.entry_type = "loop_ramp"
    THEN calculate_loop_ramp_entry_position(entry)
    ELSE LET highway_extent == 2500
             lane_separation == HighwayHalfWidth + 50
         IN  IF entry.lane \in 1..3
             THEN Vec(-lane_separation + (entry.lane - 2) * cfg.lane_width,
                      highway_extent)
             ELSE IF entry.lane \in 4..6
             THEN Vec(lane_separation + (entry.lane - 5) * cfg.lane_width,
                      -highway_extent)
             ELSE IF entry.lane \in 7..9
             THEN Vec(highway_extent,
                      lane_separation + (entry.lane - 8) * cfg.lane_width)
             ELSE IF entry.lane \in 10..12
             THEN Vec(-highway_extent,
                      -lane_separation + (entry.lane - 11) * cfg.lane_width)
             ELSE Vec(0, 0)

\* an unknown geometry type falls back to the donut logic
calculate_entry_position(entry) ==
    IF cfg.geometry_type = "cloverleaf"
    THEN calculate_cloverleaf_entry_position(entry)
    ELSE calculate_donut_entry_position(entry)

\* [velocity, heading]: the direction (times 10000) and the heading in degrees
calculate_donut_entry_velocity(entry) ==
    LET tangent_angle == entry.angle + 90
    IN  [velocity |-> Vec(-Sin(tangent_angle), Cos(tangent_angle)),
         heading |-> tangent_angle]

calculate_loop_ramp_entry_velocity(entry) ==
    LET ne == [velocity |-> Vec(-7070, -7070), heading |-> -135]
        se == [velocity |-> Vec(-7070, 7070), heading |-> 135]
        sw == [velocity |-> Vec(7070, 7070), heading |-> 45]
        nw == [velocity |-> Vec(7070, -7070), heading |-> -45]
    IN  CASE entry.id = "ne_loop_entry" -> ne
          [] entry.id = "se_loop_entry" -> se
          [] entry.id = "sw_loop_entry" -> sw
          [] entry.id = "nw_loop_entry" -> nw
          [] OTHER ->
               IF entry.lane \in 1..3 THEN ne
               ELSE IF entry.lane \in 4..6 THEN sw
               ELSE IF entry.lane \in 7..9 THEN nw
               ELSE IF entry.lane \in 10..12 THEN se
               ELSE [velocity |-> Vec(10000, 0), heading |-> 0]

calculate_cloverleaf_entry_velocity(entry) ==
    IF entry.entry_type = "loop_ramp"
    THEN calculate_loop_ramp_entry_velocity(entry)
    ELSE IF entry.lane \in 1..3 THEN [velocity |-> Vec(0, -10000), heading |-> -90]
    ELSE IF entry.lane \in 4..6 THEN [velocity |-> Vec(0, 10000), heading |-> 90]
    ELSE IF entry.lane \in 7..9 THEN [velocity |-> Vec(-10000, 0), heading |-> 180]
    ELSE [velocity |-> Vec(10000, 0), heading |-> 0]

calculate_entry_velocity(entry) ==
    IF cfg.geometry_type = "cloverleaf"
    THEN calculate_cloverleaf_entry_velocity(entry)
    ELSE calculate_donut_entry_velocity(entry)

(***************************************************************************)
(* Spawn clearance (simulation/traffic.rs)                                 *)
(***************************************************************************)
DistanceToEntry(car, entry) ==
    Magnitude(VSub(car.position, calculate_entry_position(entry)))

\* min_spawn_distance = 5.0
can_spawn_at_entry_static(entry, st) ==
    \A i \in 1..Len(st.cars) : ~(DistanceToEntry(st.cars[i], entry) < 50)

\* min_spawn_distance = 2.0
can_spawn_at_entry_permissive(entry, st) ==
    \A i \in 1..Len(st.cars) : ~(DistanceToEntry(st.cars[i], entry) < 20)

(***************************************************************************)
(* Behavior Engine (simulation/behavior.rs)                                *)
(* A BehaviorEngine is [behaviors, rng]: `behaviors` lists the profile     *)
(* names in the order the Vec was collected from the configuration's       *)
(* HashMap.                                                                *)
(***************************************************************************)
BehaviorEngine_new(behavior_order, seed) ==
    [behaviors |-> behavior_order, rng |-> seed_from_u64(seed)]

\* the fallback profile of create_behavior_state
DefaultBehavior == DriverBehavior(100, 10, 8, 10, 25)

create_behavior_state(be, behavior_name) ==
    LET behavior ==
            IF behavior_name \in DOMAIN cfg.behavior
            THEN cfg.behavior[behavior_name]
            ELSE IF "normal" \in DOMAIN cfg.behavior
            THEN cfg.behavior["normal"]
            ELSE DefaultBehavior
    IN  [following_distance_factor |-> behavior.following_distance_factor,
         lane_change_frequency |-> behavior.lane_change_frequency,
         speed_variance |-> behavior.speed_variance,
         exit_probability |-> behavior.exit_probability,
         last_lane_change_time |-> 0,
         target_speed |-> 250]

\* the weighted pick both selections use: the first index i with
\* value < weights[1] + .. + weights[i], or 0 when there is none
RECURSIVE PickWeighted(_, _, _)
PickWeighted(weights, value, i) ==
    IF i > Len(weights) THEN 0
    ELSE IF value < weights[i] THEN i
    ELSE PickWeighted(weights, value - weights[i], i + 1)

\* returns [name, be]
select_random_behavior(be) ==
    LET weights == [i \in 1..Len(be.behaviors) |-> cfg.behavior[be.behaviors[i]].weight]
        Named(k, rng) == [name |-> IF k # 0 THEN be.behaviors[k] ELSE be.behaviors[1],
                          be |-> [be EXCEPT !.rng = rng]]
        Drawn(draw) == Named(PickWeighted(weights, draw.val, 1), draw.rng)
    IN  Drawn(gen_range(be.rng, SumSeq(weights)))

\* returns [val, rng]
calculate_target_speed(car, rng) ==
    LET variance == car.behavior.speed_variance
        Limited(noise) ==
            [val |-> Min(Max(RoundDiv(car.preferred_speed * variance * noise.val, 10000),
                             cfg.min_speed),
                         cfg.speed_limit),
             rng |-> noise.rng]
    IN  Limited(IF variance # 10 THEN sample_normal(rng, Abs(variance - 10))
                ELSE [val |-> 1000, rng |-> rng])

\* the angle of a position about the route centre, in -179 .. 180
AngleAboutCenter(position) ==
    Atan2(position.y - cfg.center.y, position.x - cfg.center.x)

\* the same in 0 .. 359, as the exit checks normalise it
AngleAboutCenter360(position) ==
    LET Normalised(a) == IF a < 0 THEN a + 360 ELSE a
    IN  Normalised(AngleAboutCenter(position))

\* the arc distance is_lane_change_safe measures from `car` to `other`
LaneChangeArcDistance(car, other) ==
    LET Wrapped(diff) == IF diff > 180 THEN 360 - diff ELSE diff
    IN  ArcLength(Wrapped(Abs(AngleAboutCenter(other.position)
                                  - AngleAboutCenter(car.position))),
                  Magnitude(VSub(car.position, cfg.center)))

SafetyDistance(car) == car.length + 100

\* is_lane_change_safe that finds every lane change safe
C9_is_lane_change_safe_unchecked(car, target_lane, st) == TRUE

is_lane_change_safe(car, target_lane, st) ==
    \A i \in 1..Len(st.cars) :
        LET other_car == st.cars[i]
        IN  \/ other_car.id = car.id
            \/ other_car.current_lane # target_lane
            \/ ~(LaneChangeArcDistance(car, other_car) < SafetyDistance(car))

\* check_lane_change_decision that offers both neighbours whatever the lane
C20_check_lane_change_decision_unbounded(car, st, rng) ==
    LET no == [lane |-> None, rng |-> rng]
        freq == car.behavior.lane_change_frequency
        time_since_change == st.time - car.behavior.last_lane_change_time
        Chosen(target_lane, after) ==
            IF is_lane_change_safe(car, target_lane, st)
            THEN [lane |-> target_lane, rng |-> after]
            ELSE [lane |-> None, rng |-> after]
        Sided(side) == Chosen(IF side.val THEN car.current_lane - 1
                              ELSE car.current_lane + 1, side.rng)
        Drawn(chance) ==
            IF chance.val * 6000 < freq * st.dt * RngMod
            THEN Sided(gen_bool_half(chance.rng))
            ELSE [lane |-> None, rng |-> chance.rng]
    IN  IF car.target_lane # None THEN no
        ELSE IF freq = 0 \/ time_since_change * freq < 6000 THEN no
        ELSE Drawn(gen_f32(rng))

\* returns [lane, rng]; lane = None when no change is requested
check_lane_change_decision(car, st, rng) ==
    LET no == [lane |-> None, rng |-> rng]
        freq == car.behavior.lane_change_frequency
        time_since_change == st.time - car.behavior.last_lane_change_time
        can_change_left == car.current_lane > 1
        can_change_right == car.current_lane < cfg.lane_count
        Chosen(target_lane, after) ==
            IF is_lane_change_safe(car, target_lane, st)
            THEN [lane |-> target_lane, rng |-> after]
            ELSE [lane |-> None, rng |-> after]
        Sided(side) == Chosen(IF side.val THEN car.current_lane - 1
                              ELSE car.current_lane + 1, side.rng)
        Drawn(chance) ==
            IF chance.val * 6000 < freq * st.dt * RngMod
            THEN Sided(IF can_change_left /\ can_change_right
                       THEN gen_bool_half(chance.rng)
                       ELSE [val |-> can_change_left, rng |-> chance.rng])
            ELSE [lane |-> None, rng |-> chance.rng]
    IN  IF car.target_lane # None THEN no
        ELSE IF freq = 0 \/ time_since_change * freq < 6000 THEN no
        ELSE IF ~can_change_left /\ ~can_change_right THEN no
        ELSE Drawn(gen_f32(rng))

ExitAngleDiff(exit, car) ==
    LET Wrapped(diff) == IF diff > 180 THEN 360 - diff ELSE diff
    IN  Wrapped(Abs(exit.angle - AngleAboutCenter360(car.position)))

\* one draw per exit within 30 degrees in the car's lane; the draw decides
\* nothing (the exit logic is a TODO): returns the generator afterwards
RECURSIVE check_exit_decision_for_car(_, _, _)
check_exit_decision_for_car(car, rng, k) ==
    IF k > Len(cfg.exits) THEN rng
    ELSE IF ExitAngleDiff(cfg.exits[k], car) < 30
            /\ car.current_lane = cfg.exits[k].lane
    THEN check_exit_decision_for_car(car, gen_f32(rng).rng, k + 1)
    ELSE check_exit_decision_for_car(car, rng, k + 1)

\* whether one of the draws of check_exit_decision_for_car came out below the
\* car's exit_probability (in percent)
RECURSIVE ExitDrawWon(_, _, _)
ExitDrawWon(car, rng, k) ==
    IF k > Len(cfg.exits) THEN FALSE
    ELSE IF ExitAngleDiff(cfg.exits[k], car) < 30
            /\ car.current_lane = cfg.exits[k].lane
    THEN \/ gen_f32(rng).val * 100 < car.behavior.exit_probability * RngMod
         \/ ExitDrawWon(car, gen_f32(rng).rng, k + 1)
    ELSE ExitDrawWon(car, rng, k + 1)

\* returns [update, rng], update = [target_speed, target_lane, lane_change_requested]
calculate_car_behavior_update(car, st, rng) ==
    LET Decided(speed, change) ==
            [update |-> [target_speed |-> speed.val,
                         target_lane |-> IF change.lane # None THEN change.lane
                                         ELSE car.target_lane,
                         lane_change_requested |-> change.lane # None],
             rng |-> check_exit_decision_for_car(car, change.rng, 1)]
        WithSpeed(speed) == Decided(speed, check_lane_change_decision(car, st, speed.rng))
    IN  WithSpeed(calculate_target_speed(car, rng))

\* the collect loop of update: returns [updates, rng]
RECURSIVE CollectBehaviorUpdates(_, _, _, _)
CollectBehaviorUpdates(st, i, rng, acc) ==
    LET Collected(r) == CollectBehaviorUpdates(st, i + 1, r.rng, Append(acc, r.update))
    IN  IF i > Len(st.cars) THEN [updates |-> acc, rng |-> rng]
        ELSE Collected(calculate_car_behavior_update(st.cars[i], st, rng))

\* ApplyBehaviorUpdate that puts the car into the requested lane at once
C21_ApplyBehaviorUpdate_moves_car(car, update, time) ==
    LET c1 == [car EXCEPT !.behavior.target_speed = update.target_speed,
                          !.target_lane = update.target_lane]
    IN  IF update.lane_change_requested
        THEN [c1 EXCEPT !.behavior.last_lane_change_time = time,
                        !.lane_change_progress = 0,
                        !.current_lane = update.target_lane]
        ELSE c1

\* the indices of the cars for which the collect loop of update, started with
\* generator rng at car i, wins an exit draw
RECURSIVE ExitWinners(_, _, _)
ExitWinners(st, i, rng) ==
    LET Rest(r) == ExitWinners(st, i + 1, r.rng)
        Won(change) == IF ExitDrawWon(st.cars[i], change.rng, 1) THEN {i} ELSE {}
        AfterSpeed(speed) == Won(check_lane_change_decision(st.cars[i], st, speed.rng))
    IN  IF i > Len(st.cars) THEN {}
        ELSE AfterSpeed(calculate_target_speed(st.cars[i], rng))
                 \cup Rest(calculate_car_behavior_update(st.cars[i], st, rng))

ApplyBehaviorUpdate(car, update, time) ==
    LET c1 == [car EXCEPT !.behavior.target_speed = update.target_speed,
                          !.target_lane = update.target_lane]
    IN  IF update.lane_change_requested
        THEN [c1 EXCEPT !.behavior.last_lane_change_time = time,
                        !.lane_change_progress = 0]
        ELSE c1

\* BehaviorEngine::update: returns [be, state, updates]
BehaviorEngine_update(be, st) ==
    LET Applied(got) ==
            [be |-> [be EXCEPT !.rng = got.rng],
             state |-> [st EXCEPT !.cars =
                           [i \in 1..Len(st.cars) |->
                               ApplyBehaviorUpdate(st.cars[i], got.updates[i], st.time)]],
             updates |-> got.updates]
    IN  Applied(CollectBehaviorUpdates(st, 1, be.rng, << >>))

(***************************************************************************)
(* Traffic Manager (simulation/traffic.rs)                                 *)
(* A TrafficManager is [next_car_id, spawn_timers, timer_order, rng,       *)
(* behavior_engine]; timer_order is the order in which the spawn_timers    *)
(* HashMap is iterated.                                                    *)
(***************************************************************************)
\* 1.0 / spawn_rate, spawn_rate in hundredths of a car per second
BaseInterval == 1000 \div cfg.spawn_rate

EntryIntervalIndex(entry_id) ==
    LET IsFor(ei) == ei.entry_id = entry_id
    IN  FirstIndex(cfg.entry_intervals, IsFor)

EntryIds == {cfg.entries[i].id : i \in 1..Len(cfg.entries)}

EntryById(entry_id) ==
    LET IsId(e) == e.id = entry_id
    IN  cfg.entries[FirstIndex(cfg.entries, IsId)]

\* every entry with a configured interval draws from a clone of the fresh
\* generator, which itself is not advanced
TrafficManager_new(seed, timer_order, behavior_order) ==
    LET rng == seed_from_u64(seed)
    IN  [next_car_id |-> 0,
         spawn_timers |->
            [id \in EntryIds |->
                LET k == EntryIntervalIndex(id)
                IN  IF k # 0
                    THEN gen_range_inclusive(rng, cfg.entry_intervals[k].min_interval,
                                             cfg.entry_intervals[k].max_interval).val
                    ELSE BaseInterval],
         timer_order |-> timer_order,
         rng |-> rng,
         behavior_engine |-> BehaviorEngine_new(behavior_order, seed)]

\* the speeds of the cars closer than check_radius to `position`
NearbySpeeds(st, position, check_radius) ==
    LET Near(c) == Magnitude(VSub(c.position, position)) < check_radius
    IN  [k \in 1..Cardinality({i \in 1..Len(st.cars) : Near(st.cars[i])}) |->
            Speed(st.cars[CHOOSE i \in 1..Len(st.cars) :
                /\ Near(st.cars[i])
                /\ Cardinality({j \in 1..i : Near(st.cars[j])}) = k])]

\* the weighted car-type draw shared by both spawn functions: [car_type, rng]
SelectCarType(rng) ==
    LET weights == [i \in 1..Len(cfg.car_types) |-> cfg.car_types[i].weight]
        Typed(k, after) == [car_type |-> IF k # 0 THEN cfg.car_types[k]
                                         ELSE cfg.car_types[1],
                            rng |-> after]
        Drawn(draw) == Typed(PickWeighted(weights, draw.val, 1), draw.rng)
    IN  Drawn(gen_range(rng, SumSeq(weights)))

NewCar(id, entry, car_type, behavior_state, behavior_name, initial_speed, time) ==
    LET Placed(position, ev) ==
            [id |-> id,
             position |-> position,
             velocity |-> Scaled(ev.velocity, initial_speed),
             heading |-> ev.heading,
             length |-> car_type.length,
             max_acceleration |-> car_type.max_acceleration,
             max_deceleration |-> car_type.max_deceleration,
             preferred_speed |-> car_type.preferred_speed,
             current_lane |-> entry.lane,
             target_lane |-> None,
             lane_change_progress |-> 0,
             behavior |-> behavior_state,
             behavior_type |-> behavior_name,
             car_type |-> car_type.id,
             marked_for_exit |-> FALSE,
             spawn_time |-> time,
             exit_time |-> None]
    IN  Placed(calculate_entry_position(entry), calculate_entry_velocity(entry))

\* returns [tm, state, car]
spawn_car_at_entry(t, st, entry) ==
    LET Added(ct, sel, car) ==
            [tm |-> [t EXCEPT !.rng = ct.rng,
                              !.behavior_engine = sel.be,
                              !.next_car_id = @ + 1],
             state |-> add_car(st, car),
             car |-> car]
        InitialSpeed(nearby_speeds) ==
            IF nearby_speeds # << >>
            THEN Min(Max(SumSeq(nearby_speeds) \div Len(nearby_speeds), 100), 350)
            ELSE 156
        Selected(ct, sel) ==
            Added(ct, sel,
                  NewCar(t.next_car_id, entry, ct.car_type,
                         create_behavior_state(sel.be, sel.name), sel.name,
                         InitialSpeed(NearbySpeeds(st, calculate_entry_position(entry), 300)),
                         st.time))
    IN  Selected(SelectCarType(t.rng), select_random_behavior(t.behavior_engine))

\* spawn_manual_car without `self.next_car_id += 1`: the next car created
\* gets the id of the manual car again
C3_spawn_manual_car_keeps_next_id(t, st, behavior_name) ==
    LET Added(ct, car) ==
            [tm |-> [t EXCEPT !.rng = ct.rng],
             state |-> add_car(st, car),
             spawned |-> TRUE]
        InitialSpeed(nearby_speeds) ==
            IF nearby_speeds # << >>
            THEN Min(Max(MinSeq(nearby_speeds), 50), 300)
            ELSE 156
        Selected(entry, ct) ==
            Added(ct,
                  NewCar(t.next_car_id, entry, ct.car_type,
                         create_behavior_state(t.behavior_engine, behavior_name),
                         behavior_name,
                         InitialSpeed(NearbySpeeds(st, calculate_entry_position(entry), 250)),
                         st.time))
    IN  IF cfg.entries = << >> THEN [tm |-> t, state |-> st, spawned |-> FALSE]
        ELSE IF ~can_spawn_at_entry_permissive(cfg.entries[1], st)
        THEN [tm |-> t, state |-> st, spawned |-> FALSE]
        ELSE Selected(cfg.entries[1], SelectCarType(t.rng))

\* spawn_manual_car without the clearance check: it spawns also when a car
\* stands within 2 m of the entry
C15_spawn_manual_car_unchecked(t, st, behavior_name) ==
    LET Added(ct, car) ==
            [tm |-> [t EXCEPT !.rng = ct.rng, !.next_car_id = @ + 1],
             state |-> add_car(st, car),
             spawned |-> TRUE]
        InitialSpeed(nearby_speeds) ==
            IF nearby_speeds # << >>
            THEN Min(Max(MinSeq(nearby_speeds), 50), 300)
            ELSE 156
        Selected(entry, ct) ==
            Added(ct,
                  NewCar(t.next_car_id, entry, ct.car_type,
                         create_behavior_state(t.behavior_engine, behavior_name),
                         behavior_name,
                         InitialSpeed(NearbySpeeds(st, calculate_entry_position(entry), 250)),
                         st.time))
    IN  IF cfg.entries = << >> THEN [tm |-> t, state |-> st, spawned |-> FALSE]
        ELSE Selected(cfg.entries[1], SelectCarType(t.rng))

\* returns [tm, state, spawned]: spawned is TRUE when a car was created
spawn_manual_car(t, st, behavior_name) ==
    LET Added(ct, car) ==
            [tm |-> [t EXCEPT !.rng = ct.rng, !.next_car_id = @ + 1],
             state |-> add_car(st, car),
             spawned |-> TRUE]
        InitialSpeed(nearby_speeds) ==
            IF nearby_speeds # << >>
            THEN Min(Max(MinSeq(nearby_speeds), 50), 300)
            ELSE 156
        Selected(entry, ct) ==
            Added(ct,
                  NewCar(t.next_car_id, entry, ct.car_type,
                         create_behavior_state(t.behavior_engine, behavior_name),
                         behavior_name,
                         InitialSpeed(NearbySpeeds(st, calculate_entry_position(entry), 250)),
                         st.time))
    IN  IF cfg.entries = << >> THEN [tm |-> t, state |-> st, spawned |-> FALSE]
        ELSE IF ~can_spawn_at_entry_permissive(cfg.entries[1], st)
        THEN [tm |-> t, state |-> st, spawned |-> FALSE]
        ELSE Selected(cfg.entries[1], SelectCarType(t.rng))

\* the slow-down force_spawn_gap applies to one car within the gap zone
SlowDownForGap(car, entry, dt) ==
    LET decel_velocity_change == (car.max_deceleration * 7 * dt) \div 100
        Slowed(car_distance, current_speed) ==
            [car EXCEPT
                !.behavior.target_speed =
                    Max((@ * (450 + 7 * Min(car_distance, 150))) \div 1500, 20),
                !.velocity =
                    IF car_distance < 90
                    THEN IF current_speed > decel_velocity_change
                         THEN Scaled(@, current_speed - decel_velocity_change)
                         ELSE Scaled(@, 10)
                    ELSE @]
    IN  Slowed(DistanceToEntry(car, entry), Speed(car))

\* force_gap_distance = 15.0, minimum_spawn_distance = 3.0: returns [ok, state]
force_spawn_gap(entry, st) ==
    LET Forced(distances) ==
            IF \E i \in 1..Len(st.cars) : distances[i] < 30
            THEN [ok |-> FALSE, state |-> st]
            ELSE [ok |-> TRUE,
                  state |-> [st EXCEPT !.cars =
                      [i \in 1..Len(st.cars) |->
                          IF distances[i] < 150
                          THEN SlowDownForGap(st.cars[i], entry, st.dt)
                          ELSE st.cars[i]]]]
    IN  Forced([i \in 1..Len(st.cars) |-> DistanceToEntry(st.cars[i], entry)])

\* the timer loop of update_spawning over the HashMap order:
\* returns [timers, rng, requests], a request being [entry, natural_spawn]
RECURSIVE UpdateSpawnTimers(_, _, _, _, _, _)
UpdateSpawnTimers(order, k, timers, rng, st, requests) ==
    LET entry_id == order[k]
        ei == EntryIntervalIndex(entry_id)
        Expired(entry, reset) ==
            UpdateSpawnTimers(order, k + 1,
                [timers EXCEPT ![entry_id] = reset.val], reset.rng, st,
                Append(requests,
                       [entry |-> entry,
                        natural_spawn |-> \/ can_spawn_at_entry_static(entry, st)
                                          \/ can_spawn_at_entry_permissive(entry, st)]))
    IN  IF k > Len(order) THEN [timers |-> timers, rng |-> rng, requests |-> requests]
        ELSE IF timers[entry_id] - st.dt <= 0
        THEN Expired(EntryById(entry_id),
                     IF ei # 0
                     THEN gen_range_inclusive(rng, cfg.entry_intervals[ei].min_interval,
                                              cfg.entry_intervals[ei].max_interval)
                     ELSE [val |-> BaseInterval, rng |-> rng])
        ELSE UpdateSpawnTimers(order, k + 1,
                 [timers EXCEPT ![entry_id] = @ - st.dt], rng, st, requests)

\* the request loop of update_spawning: returns [tm, state, spawned, requests]
RECURSIVE ProcessSpawnRequests(_, _, _, _, _)
ProcessSpawnRequests(requests, k, t, st, spawned) ==
    LET Spawned(req, r) ==
            ProcessSpawnRequests(requests, k + 1, r.tm, r.state,
                Append(spawned, [entry |-> req.entry.id,
                                 id |-> r.car.id,
                                 car_type |-> r.car.car_type,
                                 behavior_type |-> r.car.behavior_type]))
        Gapped(req, forced) ==
            IF ~forced.ok
            THEN ProcessSpawnRequests(requests, k + 1, t, st, spawned)
            ELSE Spawned(req, spawn_car_at_entry(t, forced.state, req.entry))
        Requested(req) ==
            Gapped(req, IF req.natural_spawn THEN [ok |-> TRUE, state |-> st]
                        ELSE force_spawn_gap(req.entry, st))
    IN  IF k > Len(requests)
        THEN [tm |-> t, state |-> st, spawned |-> spawned, requests |-> requests]
        ELSE Requested(requests[k])

\* update_spawning that drops a refused request for good: the timer of an
\* entry whose request did not lead to a spawn is parked instead of reset
C12_update_spawning_drops_refused(t, st) ==
    LET Parked(r) ==
            [r EXCEPT !.tm.spawn_timers =
                [id \in DOMAIN @ |->
                    IF /\ \E i \in 1..Len(r.requests) : r.requests[i].entry.id = id
                       /\ ~\E i \in 1..Len(r.spawned) : r.spawned[i].entry = id
                    THEN 1000000 ELSE @[id]]]
        Timed(timed) ==
            Parked(ProcessSpawnRequests(timed.requests, 1,
                [t EXCEPT !.spawn_timers = timed.timers, !.rng = timed.rng],
                st, << >>))
    IN  IF st.active_cars >= cfg.total_cars
        THEN [tm |-> t, state |-> st, spawned |-> << >>, requests |-> << >>]
        ELSE Timed(UpdateSpawnTimers(t.timer_order, 1, t.spawn_timers, t.rng, st, << >>))

\* returns [tm, state, spawned, requests]
update_spawning(t, st) ==
    LET Timed(timed) ==
            ProcessSpawnRequests(timed.requests, 1,
                [t EXCEPT !.spawn_timers = timed.timers, !.rng = timed.rng],
                st, << >>)
    IN  IF st.active_cars >= cfg.total_cars
        THEN [tm |-> t, state |-> st, spawned |-> << >>, requests |-> << >>]
        ELSE Timed(UpdateSpawnTimers(t.timer_order, 1, t.spawn_timers, t.rng, st, << >>))

should_car_exit(car) ==
    \E k \in 1..Len(cfg.exits) :
        /\ ExitAngleDiff(cfg.exits[k], car) < 5
        /\ car.current_lane = cfg.exits[k].lane

\* the collect loop of update_despawning: returns [cars_to_remove, rng]
RECURSIVE CollectDespawns(_, _, _, _)
CollectDespawns(st, i, rng, acc) ==
    LET car == st.cars[i]
        Evicted(listed, draw) ==
            CollectDespawns(st, i + 1, draw.rng,
                IF draw.val * 1000 < RngMod THEN Append(listed, car.id) ELSE listed)
        Exited(listed) ==
            IF st.time > 6000 THEN Evicted(listed, gen_f32(rng))
            ELSE CollectDespawns(st, i + 1, rng, listed)
    IN  IF i > Len(st.cars) THEN [cars_to_remove |-> acc, rng |-> rng]
        ELSE Exited(IF should_car_exit(car) THEN Append(acc, car.id) ELSE acc)

RECURSIVE RemoveAll(_, _)
RemoveAll(st, ids) ==
    IF ids = << >> THEN st ELSE RemoveAll(remove_car(st, Head(ids)), Tail(ids))

\* update_despawning that takes one off active_cars per entry of
\* cars_to_remove instead of per car removed
C5_update_despawning_counts_listings(t, st) ==
    LET Removed(got) ==
            [tm |-> [t EXCEPT !.rng = got.rng],
             state |-> [RemoveAll(st, got.cars_to_remove) EXCEPT
                           !.active_cars = Max(st.active_cars - Len(got.cars_to_remove), 0)],
             cars_to_remove |-> got.cars_to_remove]
    IN  Removed(CollectDespawns(st, 1, t.rng, << >>))

\* returns [tm, state, cars_to_remove]
update_despawning(t, st) ==
    LET Removed(got) ==
            [tm |-> [t EXCEPT !.rng = got.rng],
             state |-> RemoveAll(st, got.cars_to_remove),
             cars_to_remove |-> got.cars_to_remove]
    IN  Removed(CollectDespawns(st, 1, t.rng, << >>))

\* TrafficManager::update: behavior, then spawning, then despawning.
\* returns [tm, state, updates, spawn_pre, requests, spawned, despawn_pre,
\* cars_to_remove]
TrafficManager_update(t, st) ==
    LET Despawned(b, s, d) ==
            [tm |-> d.tm, state |-> d.state,
             updates |-> b.updates,
             spawn_pre |-> b.state, requests |-> s.requests, spawned |-> s.spawned,
             despawn_pre |-> s.state, cars_to_remove |-> d.cars_to_remove]
        Spawned(b, s) == Despawned(b, s, update_despawning(s.tm, s.state))
        Behaved(b) ==
            Spawned(b, update_spawning([t EXCEPT !.behavior_engine = b.be], b.state))
    IN  Behaved(BehaviorEngine_update(t.behavior_engine, st))

(***************************************************************************)
(* Physics Engine (simulation/physics.rs)                                  *)
(***************************************************************************)
get_target_radius(car) ==
    IF car.target_lane # None THEN get_lane_radius(car.target_lane)
    ELSE get_lane_radius(car.current_lane)

\* following_distance is in tenths of a second, the factor in tenths
calculate_following_distance(car) ==
    (cfg.following_distance * Speed(car) * car.behavior.following_distance_factor)
        \div 100 + cfg.safety_margin

\* the arc distance find_front_car measures from `car` to `other`, or None
\* when `other` is not in the half circle ahead
FrontArcDistance(car, other) ==
    LET Ahead(angle_diff) ==
            IF angle_diff > 0 /\ angle_diff < 180
            THEN ArcLength(angle_diff, Magnitude(VSub(car.position, cfg.center)))
            ELSE None
        Wrapped(d) == Ahead(IF d < 0 THEN d + 360 ELSE d)
    IN  Wrapped(AngleAboutCenter(other.position) - AngleAboutCenter(car.position))

\* the first index of `distances` with the least distance that is not None
\* (the scan replaces the closest car only on a strictly smaller distance):
\* returns [index, distance], index 0 and distance None when there is none
ClosestOf(distances) ==
    LET cand == {i \in DOMAIN distances : distances[i] # None}
        Picked(best) == [index |-> best, distance |-> distances[best]]
    IN  IF cand = {} THEN [index |-> 0, distance |-> None]
        ELSE Picked(CHOOSE i \in cand :
                 \A j \in cand : \/ distances[i] < distances[j]
                                 \/ (distances[i] = distances[j] /\ i <= j))

find_front_car(car, st) ==
    ClosestOf([i \in 1..Len(st.cars) |->
        IF /\ st.cars[i].id # car.id
           /\ \/ st.cars[i].current_lane = car.current_lane
              \/ (car.target_lane # None /\ st.cars[i].current_lane = car.target_lane)
        THEN FrontArcDistance(car, st.cars[i])
        ELSE None])

find_front_car_straight(car, st) ==
    LET car_direction == IF Speed(car) > 1 THEN car.velocity ELSE Vec(1, 0)
    IN  ClosestOf([i \in 1..Len(st.cars) |->
            IF /\ st.cars[i].id # car.id
               /\ st.cars[i].current_lane = car.current_lane
               /\ Dot(VSub(st.cars[i].position, car.position), car_direction) > 0
            THEN Magnitude(VSub(st.cars[i].position, car.position))
            ELSE None])

\* the collision-avoidance cascade both CPU updates apply to the target speed
AvoidCollision(target_speed, front, following_distance, st) ==
    IF front.distance = None THEN target_speed
    ELSE IF front.distance < cfg.emergency_brake_distance THEN 0
    ELSE IF front.distance < cfg.warning_distance
    THEN (target_speed * (front.distance - cfg.emergency_brake_distance))
             \div (cfg.warning_distance - cfg.emergency_brake_distance)
    ELSE IF front.distance < following_distance
    THEN Min(Speed(st.cars[front.index]), target_speed)
    ELSE target_speed

\* direction * speed for a direction scaled by 10000
Times(direction, speed) ==
    Vec(RoundDiv(direction.x * speed, 10000), RoundDiv(direction.y * speed, 10000))

\* returns [position, velocity, heading, lane_change_progress, target_speed]
calculate_donut_update(car, st, dt) ==
    LET to_car == VSub(car.position, cfg.center)
        lane_change_progress ==
            IF car.target_lane # None
            THEN Min(car.lane_change_progress + (dt * 1000) \div cfg.lane_change_time,
                     1000)
            ELSE car.lane_change_progress
        Moved(current_angle, current_radius, target_radius, target_speed) ==
            [position |->
                Polar(cfg.center, target_radius,
                      current_angle + ArcAngle((target_speed * dt) \div 10, target_radius)),
             velocity |->
                VAdd(Times(Vec(-Sin(current_angle + 90), Cos(current_angle + 90)),
                           target_speed),
                     IF car.target_lane # None
                     THEN Scaled(to_car, ((target_radius - current_radius) * 10)
                                             \div cfg.lane_change_time)
                     ELSE Vec(0, 0)),
             heading |-> IF Speed(car) > 1 THEN Atan2(car.velocity.y, car.velocity.x)
                         ELSE current_angle + 90,
             lane_change_progress |-> lane_change_progress,
             target_speed |-> target_speed]
    IN  Moved(Atan2(to_car.y, to_car.x), Magnitude(to_car), get_target_radius(car),
              AvoidCollision(car.behavior.target_speed, find_front_car(car, st),
                             calculate_following_distance(car), st))

\* x^0.7, x^1.2 and x^1.5 in thousandths for x = k / 10, k in 0 .. 10
Pow07 == << 0, 200, 324, 431, 527, 616, 699, 779, 855, 929, 1000 >>

Pow12 == << 0, 63, 145, 236, 333, 435, 542, 652, 765, 881, 1000 >>

Pow15 == << 0, 32, 89, 164, 253, 354, 465, 586, 716, 854, 1000 >>

\* min(time_since_spawn / seconds, 1.0) in tenths
TargetFraction(time_since_spawn, seconds) ==
    Min(time_since_spawn \div seconds, 10)

calculate_driver_profile_target_speed(car, st) ==
    LET base_target_speed == car.behavior.target_speed
        time_since_spawn == st.time - car.spawn_time
        Ramp(goal, fraction1000) == 156 + ((goal - 156) * fraction1000) \div 1000
        Capped(acceleration_factor) ==
            IF car.behavior_type = "aggressive"
            THEN Min(acceleration_factor, (base_target_speed * 115) \div 100)
            ELSE Min(acceleration_factor, base_target_speed)
    IN  IF time_since_spawn < 300 /\ Speed(car) < 200
        THEN Capped(
            CASE car.behavior_type = "aggressive" ->
                   Ramp((base_target_speed * 11) \div 10,
                        Pow07[TargetFraction(time_since_spawn, 15) + 1])
              [] car.behavior_type = "erratic" ->
                   Ramp((base_target_speed
                            * (8000 + (4 * Abs(Sin((time_since_spawn * 573) \div 200)))
                                          \div 10)) \div 10000,
                        100 * TargetFraction(time_since_spawn, 20))
              [] car.behavior_type = "strategic" ->
                   Ramp(base_target_speed,
                        Pow12[TargetFraction(time_since_spawn, 18) + 1])
              [] car.behavior_type = "cautious" ->
                   Ramp((base_target_speed * 9) \div 10,
                        Pow15[TargetFraction(time_since_spawn, 25) + 1])
              [] OTHER ->
                   Ramp(base_target_speed, 100 * TargetFraction(time_since_spawn, 20)))
        ELSE base_target_speed

\* returns [position, velocity, heading]
calculate_curved_ramp_path(car, target_speed, dt) ==
    LET loop_offset == HighwayHalfWidth + LoopRadius
        loop_centers == << Vec(loop_offset, loop_offset), Vec(loop_offset, -loop_offset),
                           Vec(-loop_offset, -loop_offset), Vec(-loop_offset, loop_offset) >>
        Turned(center, current_radius, new_angle, velocity) ==
            [position |-> Polar(center, current_radius, new_angle),
             velocity |-> velocity,
             heading |-> Atan2(velocity.y, velocity.x)]
        Advanced(center, current_radius, new_angle) ==
            Turned(center, current_radius, new_angle,
                   Times(Vec(Cos(new_angle - 90), Sin(new_angle - 90)), target_speed))
        Circling(center, current_angle, current_radius) ==
            Advanced(center, current_radius,
                     current_angle - ArcAngle((target_speed * dt) \div 10, current_radius))
        Around(center) ==
            Circling(center,
                     Atan2(car.position.y - center.y, car.position.x - center.x),
                     Max(Magnitude(VSub(car.position, center)), 10))
        Nearest(dist) ==
            Around(loop_centers[CHOOSE i \in 1..4 :
                \A j \in 1..4 : dist[i] < dist[j] \/ (dist[i] = dist[j] /\ i <= j)])
    IN  Nearest([i \in 1..4 |-> Magnitude(VSub(car.position, loop_centers[i]))])

calculate_cloverleaf_path(car, target_speed, dt) ==
    LET lane_separation == HighwayHalfWidth + 50
        step == (target_speed * dt) \div 10
        lane == car.current_lane
    IN  IF lane \in 1..3
        THEN [position |-> Vec(-lane_separation + (lane - 2) * cfg.lane_width,
                               car.position.y - step),
              velocity |-> Vec(0, -target_speed), heading |-> -90]
        ELSE IF lane \in 4..6
        THEN [position |-> Vec(lane_separation + (lane - 5) * cfg.lane_width,
                               car.position.y + step),
              velocity |-> Vec(0, target_speed), heading |-> 90]
        ELSE IF lane \in 7..9
        THEN [position |-> Vec(car.position.x - step,
                               lane_separation + (lane - 8) * cfg.lane_width),
              velocity |-> Vec(-target_speed, 0), heading |-> 180]
        ELSE IF lane \in 10..12
        THEN [position |-> Vec(car.position.x + step,
                               -lane_separation + (lane - 11) * cfg.lane_width),
              velocity |-> Vec(target_speed, 0), heading |-> 0]
        ELSE calculate_curved_ramp_path(car, target_speed, dt)

calculate_cloverleaf_update(car, st, dt) ==
    LET Pathed(target_speed, path) ==
            [position |-> path.position,
             velocity |-> path.velocity,
             heading |-> path.heading,
             lane_change_progress |-> car.lane_change_progress,
             target_speed |-> target_speed]
        Braked(target_speed) ==
            Pathed(target_speed, calculate_cloverleaf_path(car, target_speed, dt))
    IN  Braked(AvoidCollision(calculate_driver_profile_target_speed(car, st),
                              find_front_car_straight(car, st),
                              calculate_following_distance(car), st))

\* any geometry type other than "cloverleaf" takes the donut update
calculate_car_update(car, st, dt) ==
    IF cfg.geometry_type = "cloverleaf"
    THEN calculate_cloverleaf_update(car, st, dt)
    ELSE calculate_donut_update(car, st, dt)

\* ApplyCarUpdate without the promotion of target_lane
C18_ApplyCarUpdate_no_promotion(car, update) ==
    [car EXCEPT !.position = update.position,
                !.velocity = update.velocity,
                !.heading = update.heading,
                !.lane_change_progress = update.lane_change_progress]

ApplyCarUpdate(car, update) ==
    LET c1 == [car EXCEPT !.position = update.position,
                          !.velocity = update.velocity,
                          !.heading = update.heading,
                          !.lane_change_progress = update.lane_change_progress]
    IN  IF update.lane_change_progress >= 1000 /\ car.target_lane # None
        THEN [c1 EXCEPT !.current_lane = car.target_lane,
                        !.target_lane = None,
                        !.lane_change_progress = 0]
        ELSE c1

\* PhysicsEngine::update: every update is computed from the state at the start
\* of the step, then all are applied and the clock advances.
\* returns [state, updates]
PhysicsEngine_update(st) ==
    LET Applied(updates) ==
            [state |-> [st EXCEPT !.cars = [i \in 1..Len(st.cars) |->
                                               ApplyCarUpdate(st.cars[i], updates[i])],
                                  !.time = @ + st.dt],
             updates |-> updates]
    IN  Applied([i \in 1..Len(st.cars) |-> calculate_car_update(st.cars[i], st, st.dt)])

(***************************************************************************)
(* GPU backend (compute/gpu.rs)                                            *)
(* The car buffer holds max_cars = total_cars GpuCar slots.  The kernel    *)
(* runs one work-item per car of the state; the work-items share the       *)
(* buffer they read and write without synchronisation.                     *)
(***************************************************************************)
GpuCar_default ==
    [pos_x |-> 0, pos_y |-> 0, vel_x |-> 0, vel_y |-> 0, heading |-> 0,
     max_accel |-> 0, max_decel |-> 0, current_lane |-> 0, target_lane |-> 0,
     lane_change_progress |-> 0, following_distance_factor |-> 0,
     target_speed |-> 0, last_lane_change_time |-> 0]

from_car(car) ==
    [pos_x |-> car.position.x, pos_y |-> car.position.y,
     vel_x |-> car.velocity.x, vel_y |-> car.velocity.y,
     heading |-> car.heading,
     max_accel |-> car.max_acceleration, max_decel |-> car.max_deceleration,
     current_lane |-> car.current_lane,
     target_lane |-> IF car.target_lane = None THEN 0 ELSE car.target_lane,
     lane_change_progress |-> car.lane_change_progress,
     following_distance_factor |-> car.behavior.following_distance_factor,
     target_speed |-> car.behavior.target_speed,
     last_lane_change_time |-> car.behavior.last_lane_change_time]

update_car(g, car) ==
    [car EXCEPT !.position = Vec(g.pos_x, g.pos_y),
                !.velocity = Vec(g.vel_x, g.vel_y),
                !.heading = g.heading,
                !.lane_change_progress = g.lane_change_progress,
                !.target_lane = IF g.target_lane # 0 THEN g.target_lane ELSE None,
                !.behavior.target_speed = g.target_speed,
                !.behavior.last_lane_change_time = g.last_lane_change_time]

max_cars == cfg.total_cars

\* the max_cars slots written to the device
upload_cars_to_gpu(st) ==
    [i \in 1..max_cars |->
        IF i <= Len(st.cars) THEN from_car(st.cars[i]) ELSE GpuCar_default]

\* the front-car scan of one work-item over the slots it can see:
\* returns [distance, front_car_speed], distance = None for INFINITY
KernelFrontScan(cars, gid, car_count) ==
    LET car == cars[gid]
        Scanned(front) ==
            [distance |-> front.distance,
             front_car_speed |->
                IF front.index = 0 THEN 0
                ELSE Magnitude(Vec(cars[front.index].vel_x, cars[front.index].vel_y))]
        Ahead(angle_diff, current_radius) ==
            IF angle_diff > 0 /\ angle_diff < 180
            THEN ArcLength(angle_diff, current_radius)
            ELSE None
        Wrapped(d, current_radius) == Ahead(IF d < 0 THEN d + 360 ELSE d, current_radius)
        From(current_angle, current_radius) ==
            Scanned(ClosestOf([i \in 1..car_count |->
                IF \/ i = gid
                   \/ /\ cars[i].current_lane # car.current_lane
                      /\ (car.target_lane = 0 \/ cars[i].current_lane # car.target_lane)
                THEN None
                ELSE Wrapped(Atan2(cars[i].pos_y - cfg.center.y,
                                   cars[i].pos_x - cfg.center.x) - current_angle,
                             current_radius)]))
    IN  From(Atan2(car.pos_y - cfg.center.y, car.pos_x - cfg.center.x),
             Magnitude(Vec(car.pos_x - cfg.center.x, car.pos_y - cfg.center.y)))

\* the target speed of one work-item before the speed-limit clamp
KernelBrakedSpeed(car, front) ==
    LET following_distance ==
            (cfg.following_distance * Magnitude(Vec(car.vel_x, car.vel_y))
                * car.following_distance_factor) \div 100 + cfg.safety_margin
    IN  IF front.distance = None THEN car.target_speed
        ELSE IF front.distance < cfg.emergency_brake_distance THEN 0
        ELSE IF front.distance < cfg.warning_distance
        THEN (car.target_speed * (front.distance - cfg.emergency_brake_distance))
                 \div (cfg.warning_distance - cfg.emergency_brake_distance)
        ELSE IF front.distance < following_distance
        THEN Min(front.front_car_speed, car.target_speed)
        ELSE car.target_speed

\* clamp(target_speed, min_speed, speed_limit)
KernelTargetSpeed(car, front) ==
    Min(Max(KernelBrakedSpeed(car, front), cfg.min_speed), cfg.speed_limit)

\* one work-item of update_physics on the buffer contents it sees:
\* the new contents of slot gid
update_physics(cars, gid, car_count, dt) ==
    LET car == cars[gid]
        target_radius ==
            cfg.inner_radius + cfg.lane_width \div 2 + (car.current_lane - 1) * cfg.lane_width
        Written(vel, pos) ==
            [car EXCEPT !.vel_x = vel.x, !.vel_y = vel.y,
                        !.pos_x = pos.x, !.pos_y = pos.y,
                        !.heading = Atan2(vel.y, vel.x)]
        Stepped(current_angle, target_speed, new_speed) ==
            Written(Times(Vec(-Sin(current_angle + 90), Cos(current_angle + 90)), new_speed),
                    Polar(cfg.center, target_radius,
                          current_angle + ArcAngle((target_speed * dt) \div 10,
                                                   target_radius)))
        Limited(current_angle, target_speed, current_speed) ==
            Stepped(current_angle, target_speed,
                    Max(0, current_speed
                           + (IF target_speed - current_speed > 0
                              THEN Min(target_speed - current_speed,
                                       (car.max_accel * dt) \div 10)
                              ELSE Max(target_speed - current_speed,
                                       -((car.max_decel * dt) \div 10)))))
    IN  Limited(Atan2(car.pos_y - cfg.center.y, car.pos_x - cfg.center.x),
                KernelTargetSpeed(car, KernelFrontScan(cars, gid, car_count)),
                Magnitude(Vec(car.vel_x, car.vel_y)))

\* The work-items race on the buffer.  Three of the interleavings the device
\* can produce are kept: "lockstep" (every work-item scans the buffer before
\* any slot is written) and "serial" in ascending or descending index order
\* (the work-items run one after the other, each seeing the slots written
\* before it).
Schedules(car_count) ==
    {[kind |-> "lockstep", order |-> << >>],
     [kind |-> "serial", order |-> [k \in 1..car_count |-> k]],
     [kind |-> "serial", order |-> [k \in 1..car_count |-> car_count + 1 - k]]}

RECURSIVE RunSerial(_, _, _, _, _)
RunSerial(cars, order, k, car_count, dt) ==
    IF k > Len(order) THEN cars
    ELSE RunSerial([cars EXCEPT ![order[k]] = update_physics(cars, order[k], car_count, dt)],
                   order, k + 1, car_count, dt)

\* the kernel launch with global work size car_count on the uploaded slots;
\* the slots past max_cars lie outside the buffer and hold `beyond`
ExecuteKernel(buffer, car_count, dt, schedule, beyond) ==
    LET cars == [i \in 1..Max(car_count, max_cars) |->
                    IF i <= max_cars THEN buffer[i] ELSE beyond]
        after == IF schedule.kind = "lockstep"
                 THEN [i \in 1..Len(cars) |->
                          IF i <= car_count THEN update_physics(cars, i, car_count, dt)
                          ELSE cars[i]]
                 ELSE RunSerial(cars, schedule.order, 1, car_count, dt)
    IN  [i \in 1..max_cars |-> after[i]]

download_cars_from_gpu(buffer, st) ==
    [st EXCEPT !.cars = [i \in 1..Len(st.cars) |->
                            IF i <= max_cars THEN update_car(buffer[i], st.cars[i])
                            ELSE st.cars[i]]]

\* what a read past the end of the buffer can return
BeyondBuffer(st) ==
    IF Len(st.cars) > max_cars THEN {GpuCar_default, from_car(st.cars[1])}
    ELSE {GpuCar_default}

\* the device half of GpuBackend::update: upload, kernel, download, skipped
\* when there are no cars.  The simulation clock is not touched.
GpuPhysics(st, schedule, beyond) ==
    IF st.cars # << >>
    THEN download_cars_from_gpu(
             ExecuteKernel(upload_cars_to_gpu(st), Len(st.cars), st.dt, schedule, beyond),
             st)
    ELSE st

(***************************************************************************)
(* ComputeBackend (compute/mod.rs): the tick of either backend             *)
(***************************************************************************)
\* the physics half of a tick, after the traffic manager ran: [state, updates]
BackendPhysics(b, st, schedule, beyond) ==
    IF b = "Cpu" THEN PhysicsEngine_update(st)
    ELSE [state |-> GpuPhysics(st, schedule, beyond), updates |-> << >>]

\* the kernel schedules and out-of-buffer contents the physics half of a tick
\* of backend b can meet on state st
TickChoices(b, st) ==
    IF b = "Cpu"
    THEN {[schedule |-> [kind |-> "none", order |-> << >>], beyond |-> GpuCar_default]}
    ELSE {[schedule |-> sch, beyond |-> bey] :
             sch \in Schedules(Len(st.cars)), bey \in BeyondBuffer(st)}

(***************************************************************************)
(* Scenarios: a configuration and the time step the state is built with    *)
(***************************************************************************)
\* both entries fire every 0.1 s: cars are spawned close behind one another
DenseConfig == [DonutConfig EXCEPT !.spawn_rate = 1000]

\* the exit sits at the first entry
ExitAtEntryConfig ==
    [DonutConfig EXCEPT !.exits = << ExitPoint(0, 1) >>, !.total_cars = 2]

\* a cloverleaf with two southbound entries and configured entry intervals
CloverleafConfig ==
    [DonutConfig EXCEPT
        !.geometry_type = "cloverleaf", !.lane_count = 12,
        !.highway_width = 400, !.loop_radius = 600,
        !.entries = << EntryPoint("north_entry", "highway", 90, 2),
                       EntryPoint("north_inner", "highway", 90, 3) >>,
        !.exits = << ExitPoint(270, 2) >>,
        !.total_cars = 3,
        !.entry_intervals = << EntryInterval("north_entry", 1, 2) >>]

\* both entries draw their spawn interval from 0.2 s .. 1.0 s: with a time
\* step of 0.5 s a timer that was reset can take two ticks to expire again
DeferConfig ==
    [DonutConfig EXCEPT
        !.entry_intervals = << EntryInterval("main_entry", 2, 10),
                               EntryInterval("second_entry", 2, 10) >>]

\* a route without entry points (validation accepts it)
NoEntryConfig == [DonutConfig EXCEPT !.entries = << >>]

\* a route of geometry type "grid": validation accepts the type, and checks
\* neither the radii nor the lane count of a grid route
GridConfig == [DonutConfig EXCEPT !.geometry_type = "grid"]

\* a cloverleaf whose lane_count is 13 and whose only entry names lane 13:
\* validation only asks for 1 <= lane <= lane_count
CloverleafLane13Config ==
    [CloverleafConfig EXCEPT
        !.lane_count = 13,
        !.entries = << EntryPoint("outer_entry", "highway", 90, 13) >>,
        !.entry_intervals = << EntryInterval("outer_entry", 1, 2) >>]

\* drivers that may change lane once a second (60 per minute)
LaneChangeConfig ==
    [DonutConfig EXCEPT
        !.behavior = [n \in {"aggressive", "normal"} |->
                        IF n = "aggressive"
                        THEN DriverBehavior(50, 8, 600, 12, 50)
                        ELSE DriverBehavior(50, 10, 600, 10, 25)]]

CloverleafLaneChangeConfig ==
    [CloverleafConfig EXCEPT !.behavior = LaneChangeConfig.behavior]

\* a donut with lanes 2.5 m wide and both entries at angle 0, on lanes 1 and
\* 2: the entry positions are 2.5 m apart
NarrowLaneConfig ==
    [LaneChangeConfig EXCEPT
        !.lane_width = 25,
        !.entries = << EntryPoint("main_entry", "on_ramp", 0, 1),
                       EntryPoint("second_entry", "on_ramp", 0, 2) >>]

\* a donut with three lanes and the entries on the two outer ones, 5 degrees
\* apart
ThreeLaneConfig ==
    [LaneChangeConfig EXCEPT
        !.lane_count = 3,
        !.entries = << EntryPoint("main_entry", "on_ramp", 0, 1),
                       EntryPoint("second_entry", "on_ramp", 5, 3) >>]

\* the runs explored: a configuration, the time step, the backends built
\* with it and the seeds
Scenarios ==
    { [cfg |-> DonutConfig, dt |-> 10, backends |-> {"Cpu"}, seeds |-> {0}],
      [cfg |-> DenseConfig, dt |-> 2, backends |-> {"Cpu", "Gpu"}, seeds |-> {0}],
      [cfg |-> ExitAtEntryConfig, dt |-> 3500, backends |-> {"Cpu"}, seeds |-> {1}],
      [cfg |-> CloverleafConfig, dt |-> 2, backends |-> {"Cpu"}, seeds |-> {0}],
      [cfg |-> NoEntryConfig, dt |-> 10, backends |-> {"Cpu"}, seeds |-> {0}] }

\* the scenarios two runs are stepped side by side on; `backends` are those of
\* the second run
PairScenarios ==
    { [cfg |-> DonutConfig, dt |-> 10, backends |-> {"Cpu"}, seeds |-> {0, 1}],
      [cfg |-> DenseConfig, dt |-> 2, backends |-> {"Cpu", "Gpu"}, seeds |-> {0}],
      [cfg |-> ExitAtEntryConfig, dt |-> 3500, backends |-> {"Cpu", "Gpu"}, seeds |-> {1, 5}] }

\* the runs the progress of refused spawns is followed on
LiveScenarios ==
    { [cfg |-> DeferConfig, dt |-> 5, backends |-> {"Cpu", "Gpu"}, seeds |-> {6}],
      [cfg |-> DonutConfig, dt |-> 10, backends |-> {"Cpu"}, seeds |-> {0}] }

\* the runs on routes whose geometry the engine has no logic for
GeometryScenarios ==
    { [cfg |-> GridConfig, dt |-> 10, backends |-> {"Cpu", "Gpu"}, seeds |-> {0}],
      [cfg |-> CloverleafLane13Config, dt |-> 2, backends |-> {"Cpu"}, seeds |-> {0}] }

\* the runs lane changes are followed on: lane_change_time is 2 s, so on the
\* donut a change started with dt = 1 s takes two physics updates, and with
\* dt = 2 s one update is a whole lane_change_time
LaneScenarios ==
    { [cfg |-> LaneChangeConfig, dt |-> 10, backends |-> {"Cpu", "Gpu"}, seeds |-> {0, 1}],
      [cfg |-> CloverleafLaneChangeConfig, dt |-> 20, backends |-> {"Cpu"}, seeds |-> {0, 1}],
      [cfg |-> NarrowLaneConfig, dt |-> 10, backends |-> {"Cpu"}, seeds |-> {0}],
      [cfg |-> ThreeLaneConfig, dt |-> 10, backends |-> {"Cpu"}, seeds |-> {0}] }

\* the behavior names callers hand to spawn_manual_car and mark_car_for_exit
ManualBehaviors == {"aggressive", "normal"}

MaxTicks == 3

MaxExternal == 1

NoTwin == [backend |-> "none"]

(***************************************************************************)
(* History                                                                 *)
(***************************************************************************)
CarIds(st) == {st.cars[i].id : i \in 1..Len(st.cars)}

\* the ids of cars_to_remove whose remove_car call found a car, in order
RECURSIVE RemovedIds(_, _)
RemovedIds(present, ids) ==
    IF ids = << >> THEN << >>
    ELSE IF Head(ids) \in present
    THEN << Head(ids) >> \o RemovedIds(present \ {Head(ids)}, Tail(ids))
    ELSE RemovedIds(present, Tail(ids))

\* the spawn and removal events of one update, in the order they happen
UpdateEvents(r) ==
    LET Removals(gone) == [i \in 1..Len(gone) |-> [kind |-> "remove", id |-> gone[i]]]
    IN  [i \in 1..Len(r.spawned) |-> [kind |-> "spawn"] @@ r.spawned[i]]
            \o Removals(RemovedIds(CarIds(r.despawn_pre), r.cars_to_remove))

\* the refused spawn requests after an update whose traffic manager result is
\* r: a request without a spawn is a refusal (force_spawn_gap returned false),
\* and a spawn at an entry makes good every refusal open at that entry
DeferredAfter(d, r, tick) ==
    LET spawned_now == {r.spawned[i].entry : i \in 1..Len(r.spawned)}
        requested_now == {r.requests[i].entry.id : i \in 1..Len(r.requests)}
    IN  {IF x.spawned_at = 0 /\ x.entry \in spawned_now
         THEN [x EXCEPT !.spawned_at = tick] ELSE x : x \in d}
        \cup {[entry |-> e, refused_at |-> tick, spawned_at |-> 0] :
                 e \in requested_now \ spawned_now}

\* what an update did, for the history variable: r is the traffic manager's
\* result and ph the physics result
UpdateTrace(r, ph, b, pre) ==
    [op |-> "update", backend |-> b, pre |-> pre,
     updates |-> r.updates, spawn_pre |-> r.spawn_pre,
     requests |-> r.requests, spawned |-> r.spawned,
     despawn_pre |-> r.despawn_pre, cars_to_remove |-> r.cars_to_remove,
     physics_pre |-> r.state, physics |-> ph.updates]

(***************************************************************************)
(* The state machine                                                       *)
(***************************************************************************)
Init ==
    \E sc \in Scenarios : \E b \in sc.backends, seed \in sc.seeds :
        /\ cfg = sc.cfg
        /\ backend = b
        /\ state = SimulationState_new(sc.dt)
        /\ \E timer_order \in Orders({sc.cfg.entries[i].id : i \in 1..Len(sc.cfg.entries)}),
              behavior_order \in Orders(DOMAIN sc.cfg.behavior) :
                tm = TrafficManager_new(seed, timer_order, behavior_order)
        /\ last = [op |-> "new"]
        /\ issued = << >>
        /\ log = << >>
        /\ steps = [ticks |-> 0, external |-> 0]
        /\ deferred = {}
        /\ twin = NoTwin

\* one tick of the backend, ComputeBackend::update: the traffic manager's
\* update followed by the backend's physics
Update ==
    /\ steps.ticks < MaxTicks
    /\ \E r \in {TrafficManager_update(tm, state)} :
          \E choice \in TickChoices(backend, r.state) :
             \E ph \in {BackendPhysics(backend, r.state, choice.schedule, choice.beyond)} :
                /\ state' = ph.state
                /\ tm' = r.tm
                /\ last' = UpdateTrace(r, ph, backend, state)
                /\ issued' = issued \o [i \in 1..Len(r.spawned) |-> r.spawned[i].id]
                /\ log' = log \o UpdateEvents(r)
                /\ deferred' = DeferredAfter(deferred, r, steps.ticks + 1)
    /\ steps' = [steps EXCEPT !.ticks = @ + 1]
    /\ UNCHANGED << cfg, backend, twin >>

\* the manual spawn key: TrafficManager::spawn_manual_car
SpawnManualCar ==
    /\ steps.external < MaxExternal
    /\ \E behavior_name \in ManualBehaviors :
          \E r \in {spawn_manual_car(tm, state, behavior_name)} :
             /\ state' = r.state
             /\ tm' = r.tm
             /\ last' = [op |-> "spawn_manual_car", pre |-> state,
                         behavior_name |-> behavior_name, spawned |-> r.spawned]
             /\ issued' = IF r.spawned THEN Append(issued, tm.next_car_id) ELSE issued
             /\ log' = IF r.spawned
                       THEN Append(log, [kind |-> "manual", id |-> tm.next_car_id])
                       ELSE log
    /\ steps' = [steps EXCEPT !.external = @ + 1]
    /\ UNCHANGED << cfg, backend, deferred, twin >>

\* the exit key: SimulationState::mark_car_for_exit
MarkCarForExit ==
    /\ steps.external < MaxExternal
    /\ \E behavior_type \in ManualBehaviors :
          \E r \in {mark_car_for_exit(state, behavior_type)} :
             /\ state' = r.state
             /\ last' = [op |-> "mark_car_for_exit", pre |-> state,
                         behavior_type |-> behavior_type, found |-> r.found]
    /\ steps' = [steps EXCEPT !.external = @ + 1]
    /\ UNCHANGED << cfg, backend, tm, issued, log, deferred, twin >>

\* SimulationState::remove_car called with any id, present or absent
RemoveCar ==
    /\ steps.external < MaxExternal
    /\ \E id \in 0..tm.next_car_id :
          /\ state' = remove_car(state, id)
          /\ last' = [op |-> "remove_car", pre |-> state, id |-> id]
          /\ log' = IF id \in CarIds(state)
                    THEN Append(log, [kind |-> "remove", id |-> id])
                    ELSE log
    /\ steps' = [steps EXCEPT !.external = @ + 1]
    /\ UNCHANGED << cfg, backend, tm, issued, deferred, twin >>

Next == Update \/ SpawnManualCar \/ MarkCarForExit \/ RemoveCar

Spec == Init /\ [][Next]_vars

(***************************************************************************)
(* Two runs side by side: a second backend is built from the same          *)
(* configuration and seed and both are stepped once per tick, as the loops *)
(* of tests/backend_consistency.rs do. `twin` holds the second run.        *)
(***************************************************************************)
InitPair ==
    \E sc \in PairScenarios : \E b \in sc.backends, seed \in sc.seeds :
        /\ cfg = sc.cfg
        /\ backend = "Cpu"
        /\ state = SimulationState_new(sc.dt)
        /\ \E timer_order \in Orders({sc.cfg.entries[i].id : i \in 1..Len(sc.cfg.entries)}),
              behavior_order \in Orders(DOMAIN sc.cfg.behavior) :
                tm = TrafficManager_new(seed, timer_order, behavior_order)
        /\ \E timer_order \in Orders({sc.cfg.entries[i].id : i \in 1..Len(sc.cfg.entries)}),
              behavior_order \in Orders(DOMAIN sc.cfg.behavior) :
                twin = [backend |-> b,
                        seed |-> seed,
                        state |-> SimulationState_new(sc.dt),
                        tm |-> TrafficManager_new(seed, timer_order, behavior_order),
                        log |-> << >>]
        /\ last = [op |-> "new"]
        /\ issued = << >>
        /\ log = << >>
        /\ steps = [ticks |-> 0, external |-> 0]
        /\ deferred = {}

\* one pass of the loop: update on the first backend, then on the second
UpdatePair ==
    /\ steps.ticks < MaxTicks
    /\ \E r \in {TrafficManager_update(tm, state)} :
          \E choice \in TickChoices(backend, r.state) :
             \E ph \in {BackendPhysics(backend, r.state, choice.schedule, choice.beyond)} :
                /\ state' = ph.state
                /\ tm' = r.tm
                /\ last' = UpdateTrace(r, ph, backend, state)
                /\ issued' = issued \o [i \in 1..Len(r.spawned) |-> r.spawned[i].id]
                /\ log' = log \o UpdateEvents(r)
                /\ deferred' = DeferredAfter(deferred, r, steps.ticks + 1)
    /\ \E r \in {TrafficManager_update(twin.tm, twin.state)} :
          \E choice \in TickChoices(twin.backend, r.state) :
             \E ph \in {BackendPhysics(twin.backend, r.state, choice.schedule, choice.beyond)} :
                twin' = [twin EXCEPT !.state = ph.state,
                                     !.tm = r.tm,
                                     !.log = @ \o UpdateEvents(r)]
    /\ steps' = [steps EXCEPT !.ticks = @ + 1]
    /\ UNCHANGED << cfg, backend >>

NextPair == UpdatePair

SpecPair == InitPair /\ [][NextPair]_vars

(***************************************************************************)
(* The run loop: the event loop of main.rs requests a redraw after every   *)
(* frame and every redraw calls update, so a tick that can be taken is     *)
(* eventually taken.                                                       *)
(***************************************************************************)
(***************************************************************************)
(* Two cars under the physics engine alone: a state built with add_car,    *)
(* a stationary lead car and a follower behind it in the same lane, then   *)
(* PhysicsEngine::update tick after tick.  The route has inner radius      *)
(* 55.3 m: lane 1 then has radius 57.3 m, on which one degree is an arc    *)
(* of 1 m.                                                                 *)
(***************************************************************************)
\* a sedan of the "normal" profile in lane 1 at `angle` on the lane's circle,
\* with the given speed and behavior target speed
CarOnLane(id, angle, speed, target_speed) ==
    LET placed == NewCar(id, EntryPoint("main_entry", "on_ramp", angle, 1),
                         cfg.car_types[1],
                         create_behavior_state(BehaviorEngine_new(<< "normal" >>, 0),
                                               "normal"),
                         "normal", speed, 0)
    IN  [placed EXCEPT !.behavior.target_speed = target_speed]

\* the gap find_front_car measures from the follower (first car) to the lead
\* car, None when the lead car is not ahead of it
FollowerGap(st) == find_front_car(st.cars[1], st).distance

\* what the two-car runs start from: the warning distance of the
\* configuration, the time step, the follower's speed and its target speed
FollowInputs ==
    [warning_distance : {60, 150}, dt : {1, 2, 5},
     speed : {0, 100, 250}, target_speed : {100, 250, 300}]

InitFollow ==
    \E in \in FollowInputs :
        /\ cfg = [DonutConfig EXCEPT !.inner_radius = 553,
                                     !.warning_distance = in.warning_distance]
        /\ backend = "Cpu"
        /\ \E lead_angle \in 1..20 :
              /\ state = add_car(add_car(SimulationState_new(in.dt),
                                         CarOnLane(0, 0, in.speed, in.target_speed)),
                                 CarOnLane(1, lead_angle, 0, 0))
              /\ FollowerGap(state) = in.warning_distance
        /\ tm = TrafficManager_new(0, << "main_entry", "second_entry" >>,
                                   << "aggressive", "normal" >>)
        /\ last = [op |-> "new"]
        /\ issued = << 0, 1 >>
        /\ log = << >>
        /\ steps = [ticks |-> 0, external |-> 0]
        /\ deferred = {}
        /\ twin = NoTwin

\* PhysicsEngine::update called directly on the state
PhysicsStep ==
    /\ steps.ticks < MaxTicks
    /\ \E ph \in {PhysicsEngine_update(state)} :
          /\ state' = ph.state
          /\ last' = [op |-> "physics", pre |-> state, physics |-> ph.updates]
    /\ steps' = [steps EXCEPT !.ticks = @ + 1]
    /\ UNCHANGED << cfg, backend, tm, issued, log, deferred, twin >>

NextFollow == PhysicsStep

SpecFollow == InitFollow /\ [][NextFollow]_vars

\* what the three-car runs start from: the time step, the angles of the car
\* ahead in lane 1 and of the car ahead in lane 2, and their speeds
OrderInputs ==
    [dt : {1, 2, 5}, angle1 : {16, 18}, angle2 : {16, 18},
     speed1 : {0, 50}, speed2 : {100, 200}]

\* a follower in lane 1 that is changing to lane 2, a car ahead of it in lane 1
\* and a car ahead of it in lane 2, added to the state in any order.  Both
\* cars ahead lie between the warning distance and the follower's following
\* distance; at equal angles find_front_car measures the same arc to both.
InitOrder ==
    \E in \in OrderInputs :
        /\ cfg = [DonutConfig EXCEPT !.inner_radius = 553]
        /\ backend = "Cpu"
        /\ \E order \in Orders({0, 1, 2}) :
              LET follower == [CarOnLane(0, 0, 100, 250) EXCEPT !.target_lane = 2]
                  ahead1 == CarOnLane(1, in.angle1, in.speed1, in.speed1)
                  entry2 == EntryPoint("second_entry", "on_ramp", in.angle2, 2)
                  ahead2 == [CarOnLane(2, in.angle2, in.speed2, in.speed2) EXCEPT
                                !.current_lane = 2,
                                !.position = calculate_donut_entry_position(entry2)]
                  cars == << follower, ahead1, ahead2 >>
              IN  state = add_car(add_car(add_car(SimulationState_new(in.dt),
                                                  cars[order[1] + 1]),
                                          cars[order[2] + 1]),
                                  cars[order[3] + 1])
        /\ tm = TrafficManager_new(0, << "main_entry", "second_entry" >>,
                                   << "aggressive", "normal" >>)
        /\ last = [op |-> "new"]
        /\ issued = << 0, 1, 2 >>
        /\ log = << >>
        /\ steps = [ticks |-> 0, external |-> 0]
        /\ deferred = {}
        /\ twin = NoTwin

SpecOrder == InitOrder /\ [][NextFollow]_vars

InitLive ==
    \E sc \in LiveScenarios : \E b \in sc.backends, seed \in sc.seeds :
        /\ cfg = sc.cfg
        /\ backend = b
        /\ state = SimulationState_new(sc.dt)
        /\ \E timer_order \in Orders({sc.cfg.entries[i].id : i \in 1..Len(sc.cfg.entries)}),
              behavior_order \in Orders(DOMAIN sc.cfg.behavior) :
                tm = TrafficManager_new(seed, timer_order, behavior_order)
        /\ last = [op |-> "new"]
        /\ issued = << >>
        /\ log = << >>
        /\ steps = [ticks |-> 0, external |-> 0]
        /\ deferred = {}
        /\ twin = NoTwin

\* what an Update step does to the tick counter.  Update is the only action of
\* Next that changes steps.ticks and it is enabled exactly when the counter is
\* below MaxTicks, so weak fairness of this action on `steps` is weak fairness
\* of Update.
UpdateTaken ==
    /\ steps.ticks < MaxTicks
    /\ steps' = [steps EXCEPT !.ticks = @ + 1]

SpecLive == InitLive /\ [][Next]_vars /\ WF_steps(UpdateTaken)

\* a tick of the GPU backend in which a device call fails: the traffic manager
\* has already run on the host state when upload_cars_to_gpu, the kernel
\* launch, the wait or download_cars_from_gpu returns its error, and `?` hands
\* the error to the caller before update_car touches a car.  The device is
\* only used when the state holds cars.
UpdateFails ==
    /\ steps.ticks < MaxTicks
    /\ backend = "Gpu"
    /\ \E r \in {TrafficManager_update(tm, state)} :
          \E stage \in {"upload", "kernel", "wait", "download"} :
             /\ r.state.cars # << >>
             /\ state' = r.state
             /\ tm' = r.tm
             /\ last' = [UpdateTrace(r, [updates |-> << >>], backend, state)
                            EXCEPT !.op = "update_err"]
             /\ issued' = issued \o [i \in 1..Len(r.spawned) |-> r.spawned[i].id]
             /\ log' = log \o UpdateEvents(r)
                           \o << [kind |-> "error", stage |-> stage,
                                  tick |-> steps.ticks + 1] >>
             /\ deferred' = DeferredAfter(deferred, r, steps.ticks + 1)
    /\ steps' = [steps EXCEPT !.ticks = @ + 1]
    /\ UNCHANGED << cfg, backend, twin >>

\* the interactive loop: the RedrawRequested handler logs the error of
\* Application::update and goes on, so every action stays available after a
\* failed tick
NextDevice == Next \/ UpdateFails

SpecDevice == Init /\ [][NextDevice]_vars

InitLane ==
    \E sc \in LaneScenarios : \E b \in sc.backends, seed \in sc.seeds :
        /\ cfg = sc.cfg
        /\ backend = b
        /\ state = SimulationState_new(sc.dt)
        /\ \E timer_order \in Orders({sc.cfg.entries[i].id : i \in 1..Len(sc.cfg.entries)}),
              behavior_order \in Orders(DOMAIN sc.cfg.behavior) :
                tm = TrafficManager_new(seed, timer_order, behavior_order)
        /\ last = [op |-> "new"]
        /\ issued = << >>
        /\ log = << >>
        /\ steps = [ticks |-> 0, external |-> 0]
        /\ deferred = {}
        /\ twin = NoTwin

SpecLane == InitLane /\ [][Next]_vars

InitGeometry ==
    \E sc \in GeometryScenarios : \E b \in sc.backends, seed \in sc.seeds :
        /\ cfg = sc.cfg
        /\ backend = b
        /\ state = SimulationState_new(sc.dt)
        /\ \E timer_order \in Orders({sc.cfg.entries[i].id : i \in 1..Len(sc.cfg.entries)}),
              behavior_order \in Orders(DOMAIN sc.cfg.behavior) :
                tm = TrafficManager_new(seed, timer_order, behavior_order)
        /\ last = [op |-> "new"]
        /\ issued = << >>
        /\ log = << >>
        /\ steps = [ticks |-> 0, external |-> 0]
        /\ deferred = {}
        /\ twin = NoTwin

SpecGeometry == InitGeometry /\ [][Next]_vars

(***************************************************************************)
(* Properties                                                              *)
(***************************************************************************)

\* C1: in every reachable state the active_cars counter equals the number of
\* cars in the cars list, whatever mix of spawns, removals (also of an absent
\* id), manual spawns and ticks led there.
C1_ActiveCarsIsLen == state.active_cars = Len(state.cars)

\* a remove_car call that named an absent id while cars were on the road
C1_Witness ==
    /\ last.op = "remove_car"
    /\ last.id \notin CarIds(last.pre)
    /\ Len(state.cars) > 0

\* C2: an update that starts with active_cars <= total_cars ends with
\* active_cars <= total_cars, however many entries' timers expire in it.
C2_UpdateKeepsCap ==
    (last.op = "update" /\ last.pre.active_cars <= cfg.total_cars)
        => state.active_cars <= cfg.total_cars

\* C3: no CarId is handed out twice: the ids issued so far by
\* spawn_car_at_entry and spawn_manual_car are pairwise different, also after
\* cars were removed.
C3_IdsNeverReused ==
    \A i, j \in 1..Len(issued) : issued[i] = issued[j] => i = j

\* an id was issued after an earlier car had been removed
C3_Witness ==
    /\ Len(issued) >= 2
    /\ \E i \in 1..(Len(issued) - 1) : issued[i] \notin CarIds(state)
    /\ issued[Len(issued)] \in CarIds(state)
    /\ state.total_spawned > Len(state.cars)
    /\ last.op \in {"update", "spawn_manual_car"}
    /\ Len(last.pre.cars) < last.pre.total_spawned
    /\ state.total_spawned > last.pre.total_spawned

\* C4: total_spawned never decreases; it grows by one per car created and a
\* removal leaves it unchanged.
C4_TotalSpawnedCounts ==
    [][/\ state'.total_spawned >= state.total_spawned
       /\ state'.total_spawned - state.total_spawned = Len(issued') - Len(issued)
       /\ (last'.op = "remove_car" => state'.total_spawned = state.total_spawned)]_vars

\* cars were created and some were removed since
C4_Witness ==
    /\ state.total_spawned >= 2
    /\ Len(state.cars) < state.total_spawned
    /\ last.op = "update"
    /\ last.cars_to_remove # << >>
    /\ last.spawned # << >>

\* C5: update_despawning takes exactly one off active_cars for every car it
\* removes, also for a car listed twice in cars_to_remove (exit and eviction
\* in the same tick); the cars that are not listed stay, unchanged and counted.
C5_DespawnDecrementsOnce ==
    last.op = "update" =>
        LET Checked(pre, post, listed) ==
                /\ CarIds(post) = CarIds(pre) \ listed
                /\ post.active_cars
                       = pre.active_cars - Cardinality(CarIds(pre) \cap listed)
                /\ Len(post.cars) = Len(pre.cars) - Cardinality(CarIds(pre) \cap listed)
                /\ \A i \in 1..Len(pre.cars) :
                       pre.cars[i].id \notin listed
                           => \E j \in 1..Len(post.cars) : post.cars[j] = pre.cars[i]
        IN  Checked(last.despawn_pre, last.physics_pre,
                    {last.cars_to_remove[i] : i \in 1..Len(last.cars_to_remove)})

\* a tick whose cars_to_remove lists one car twice while another car stays
C5_Witness ==
    /\ last.op = "update"
    /\ \E i, j \in 1..Len(last.cars_to_remove) :
          i < j /\ last.cars_to_remove[i] = last.cars_to_remove[j]
    /\ Len(last.physics_pre.cars) > 0

\* C6: two runs built from the same configuration and seed and stepped the
\* same number of ticks on the sequential backend have logged the same spawn
\* and removal events after every tick, whatever order each run's spawn-timer
\* map and behavior map are traversed in.
C6_SameEvents ==
    twin.backend = backend => twin.log = log

\* C7: the sequential and the parallel backend, built from the same
\* configuration and seed (and traversing their maps in the same order), agree
\* after every tick on total_spawned and on the number of active cars.
C7_BackendsAgreeOnCounts ==
    (/\ backend = "Cpu"
     /\ twin.backend = "Gpu"
     /\ twin.tm.timer_order = tm.timer_order
     /\ twin.tm.behavior_engine.behaviors = tm.behavior_engine.behaviors)
        => /\ twin.state.total_spawned = state.total_spawned
           /\ twin.state.active_cars = state.active_cars
           /\ Len(twin.state.cars) = Len(state.cars)

\* C8: every update, on either backend and with any number of cars, moves
\* state.time on by exactly dt.
C8_ClockAdvancesByDt ==
    last.op = "update" => state.time = last.pre.time + last.pre.dt

\* C9: when the behavior update of a tick gives a car a new target lane L, no
\* other car that was in lane L at the start of that behavior update was closer
\* to it than car.length + 10 m, measured as is_lane_change_safe measures it
\* (the arc about the route centre at the deciding car's radius).
C9_LaneChangeIntoClearLane ==
    last.op = "update" =>
        \A i \in 1..Len(last.updates) :
            last.updates[i].lane_change_requested =>
                \A j \in 1..Len(last.pre.cars) :
                    (/\ last.pre.cars[j].id # last.pre.cars[i].id
                     /\ last.pre.cars[j].current_lane = last.updates[i].target_lane)
                        => LaneChangeArcDistance(last.pre.cars[i], last.pre.cars[j])
                               >= SafetyDistance(last.pre.cars[i])

\* a tick in which a car was sent into a lane that another car was driving in
C9_Witness ==
    /\ last.op = "update"
    /\ \E i \in 1..Len(last.updates) :
          /\ last.updates[i].lane_change_requested
          /\ last.updates[i].target_lane # last.pre.cars[i].current_lane
          /\ \E j \in 1..Len(last.pre.cars) :
                /\ j # i
                /\ last.pre.cars[j].current_lane = last.updates[i].target_lane

\* C10: in the physics step of a tick a car whose nearest front car is closer
\* than emergency_brake_distance gets target speed 0: on the sequential
\* backend in the donut and in the cloverleaf update, and on the parallel
\* backend in every work-item of the kernel (read here on the buffer as
\* uploaded, which is what each work-item sees when all scan before any writes).
C10_EmergencyBrakeStops ==
    last.op = "update" =>
        LET st == last.physics_pre
            Close(front) ==
                front.distance # None /\ front.distance < cfg.emergency_brake_distance
            CpuFront(car) ==
                IF cfg.geometry_type = "cloverleaf" THEN find_front_car_straight(car, st)
                ELSE find_front_car(car, st)
            KernelStops(buffer, gid) ==
                LET Stops(front) ==
                        Close(front) => KernelTargetSpeed(buffer[gid], front) = 0
                IN  Stops(KernelFrontScan(buffer, gid, Min(Len(st.cars), max_cars)))
        IN  IF last.backend = "Cpu"
            THEN \A i \in 1..Len(st.cars) :
                    Close(CpuFront(st.cars[i])) => last.physics[i].target_speed = 0
            ELSE \A gid \in 1..Min(Len(st.cars), max_cars) :
                    KernelStops(upload_cars_to_gpu(st), gid)

\* a tick of the sequential backend in which a car braked for a front car
\* closer than emergency_brake_distance
C10_Witness ==
    /\ last.op = "update"
    /\ last.backend = "Cpu"
    /\ \E i \in 1..Len(last.physics_pre.cars) :
          LET Close(front) ==
                  front.distance # None /\ front.distance < cfg.emergency_brake_distance
          IN  /\ Close(IF cfg.geometry_type = "cloverleaf"
                       THEN find_front_car_straight(last.physics_pre.cars[i], last.physics_pre)
                       ELSE find_front_car(last.physics_pre.cars[i], last.physics_pre))
              /\ last.physics[i].target_speed = 0

\* C11: mark_car_for_exit(b) returns true exactly when some car has behavior
\* type b and is not flagged; it then flags the first such car in list order
\* and stamps its exit_time with the clock, changing nothing else; otherwise it
\* returns false and changes nothing.  With k such cars, k + 1 calls in a row
\* return true k times and then false.
C11_MarkCarForExit ==
    last.op = "mark_car_for_exit" =>
        LET pre == last.pre
            b == last.behavior_type
            Matching == {i \in 1..Len(pre.cars) :
                            pre.cars[i].behavior_type = b /\ ~pre.cars[i].marked_for_exit}
            First == CHOOSE i \in Matching : \A j \in Matching : i <= j
            RECURSIVE Calls(_, _)
            Calls(st, n) ==
                IF n = 0 THEN << >>
                ELSE LET Rest(r) == << r.found >> \o Calls(r.state, n - 1)
                     IN  Rest(mark_car_for_exit(st, b))
            k == Cardinality(Matching)
        IN  /\ last.found = (Matching # {})
            /\ Matching = {} => state = pre
            /\ Matching # {} =>
                  state = [pre EXCEPT !.cars[First].marked_for_exit = TRUE,
                                      !.cars[First].exit_time = pre.time]
            /\ Calls(pre, k + 1) = [i \in 1..(k + 1) |-> i <= k]

\* a call that flagged one of two unflagged cars of the behavior type: the
\* other one stays unflagged
C11_Witness ==
    /\ last.op = "mark_car_for_exit"
    /\ last.found
    /\ \E i, j \in 1..Len(state.cars) :
          /\ i < j
          /\ state.cars[i].marked_for_exit
          /\ state.cars[i].exit_time = last.pre.time
          /\ state.cars[j].behavior_type = last.behavior_type
          /\ ~state.cars[j].marked_for_exit

\* C12: a spawn request that was refused at an entry (a car stood too close)
\* is made good: in a later tick a car is spawned at that entry, unless a later
\* tick found a car within 2 m of the entry again or the population at the
\* cap.  The run is followed for MaxTicks ticks, so the statement is made for
\* the refusals that leave the entry's timer the ticks it needs to expire
\* again (its longest interval divided by dt, rounded up).
C12_RefusedSpawnIsMadeGood ==
    \A e \in {"main_entry", "second_entry"}, n \in 1..MaxTicks :
        LET longest ==
                IF EntryIntervalIndex(e) # 0
                THEN cfg.entry_intervals[EntryIntervalIndex(e)].max_interval
                ELSE BaseInterval
            ticks_to_expire == (longest + state.dt - 1) \div state.dt
            Refused ==
                /\ [entry |-> e, refused_at |-> n, spawned_at |-> 0] \in deferred
                /\ n + ticks_to_expire <= MaxTicks
            SpawnedLater ==
                \E d \in deferred : d.entry = e /\ d.refused_at = n /\ d.spawned_at > n
            HinderedLater ==
                /\ steps.ticks > n
                /\ last.op = "update"
                /\ \/ last.spawn_pre.active_cars >= cfg.total_cars
                   \/ \E i \in 1..Len(last.spawn_pre.cars) :
                         DistanceToEntry(last.spawn_pre.cars[i], EntryById(e)) < 20
        IN  Refused ~> (SpawnedLater \/ HinderedLater)

\* a refusal that was made good two ticks later: the entry's timer was reset
\* to more than dt when the request was refused
C12_Witness ==
    \E d \in deferred : d.spawned_at >= d.refused_at + 2

\* C13: in a physics step of the sequential backend no car's speed rises by
\* more than max_acceleration * dt or falls by more than max_deceleration * dt
\* (2 dm/s are allowed for the rounding of the two speeds).
C13_SpeedChangeWithinBounds ==
    (last.op = "update" /\ last.backend = "Cpu") =>
        \A i \in 1..Len(last.physics_pre.cars) :
            LET before == last.physics_pre.cars[i]
                Bounded(old_speed, new_speed) ==
                    /\ new_speed - old_speed
                           <= (before.max_acceleration * last.pre.dt) \div 10 + 2
                    /\ old_speed - new_speed
                           <= (before.max_deceleration * last.pre.dt) \div 10 + 2
            IN  Bounded(Speed(before), Speed(state.cars[i]))

\* C14: with a stationary lead car and a follower that starts exactly
\* warning_distance behind it in the same lane, after any number of physics
\* ticks the lead car is still ahead of the follower and the gap between them
\* is not below emergency_brake_distance.
C14_FollowerKeepsEmergencyGap ==
    /\ FollowerGap(state) # None
    /\ FollowerGap(state) >= cfg.emergency_brake_distance

\* a follower that was slowed in the band between the two distances
C14_Witness ==
    /\ last.op = "physics"
    /\ FollowerGap(last.pre) # None
    /\ FollowerGap(last.pre) < cfg.warning_distance
    /\ FollowerGap(last.pre) >= cfg.emergency_brake_distance
    /\ Speed(state.cars[2]) = 0
    /\ last.physics[1].target_speed < last.pre.cars[1].behavior.target_speed

\* C15: spawn_manual_car(b) adds exactly one car when no car is within 2 m of
\* the first configured entry: the car is appended at that entry's position in
\* that entry's lane with behavior type b, not flagged for exit, no target
\* lane and spawn_time equal to the clock, and both counters go up by one;
\* when there is no entry or a car is within 2 m, cars and counters stay as
\* they were.
C15_ManualSpawn ==
    last.op = "spawn_manual_car" =>
        LET pre == last.pre
            blocked ==
                \/ cfg.entries = << >>
                \/ \E i \in 1..Len(pre.cars) :
                      DistanceToEntry(pre.cars[i], cfg.entries[1]) < 20
            NewIs(car, entry) ==
                /\ car.position = calculate_entry_position(entry)
                /\ car.current_lane = entry.lane
                /\ car.behavior_type = last.behavior_name
                /\ ~car.marked_for_exit
                /\ car.target_lane = None
                /\ car.spawn_time = pre.time
        IN  IF blocked
            THEN state = pre /\ ~last.spawned
            ELSE /\ last.spawned
                 /\ Len(state.cars) = Len(pre.cars) + 1
                 /\ SubSeq(state.cars, 1, Len(pre.cars)) = pre.cars
                 /\ NewIs(state.cars[Len(state.cars)], cfg.entries[1])
                 /\ state.total_spawned = pre.total_spawned + 1
                 /\ state.active_cars = pre.active_cars + 1
                 /\ state.time = pre.time /\ state.dt = pre.dt

\* a manual spawn that was turned down because a car stood within 2 m of the
\* first entry
C15_Witness ==
    /\ last.op = "spawn_manual_car"
    /\ ~last.spawned
    /\ state.cars # << >>

\* C16: on a route whose geometry type is neither "donut" nor "cloverleaf",
\* or on a cloverleaf with an entry whose lane is outside 1..12, no tick and
\* no manual spawn succeeds: no car is ever placed and no physics update is
\* ever computed for a car.  (update and spawn_manual_car have no failing
\* outcome, so every step recorded in `last` is one that returned normally.)
C16_UnsupportedGeometryFails ==
    LET unsupported ==
            \/ cfg.geometry_type \notin {"donut", "cloverleaf"}
            \/ /\ cfg.geometry_type = "cloverleaf"
               /\ \E i \in 1..Len(cfg.entries) : cfg.entries[i].lane \notin 1..12
    IN  unsupported =>
            /\ issued = << >>
            /\ state.cars = << >>
            /\ last.op = "update" /\ last.backend = "Cpu" => last.physics = << >>

\* a tick on the "grid" route has spawned a car at the position the donut
\* logic gives for the entry, or a tick on the cloverleaf with lane 13 has
\* spawned a car at the centre heading east
C16_Witness ==
    /\ last.op = "update"
    /\ \E k \in 1..Len(last.spawned) : \E i \in 1..Len(cfg.entries) :
          \E j \in 1..Len(last.physics_pre.cars) :
            LET entry == cfg.entries[i]
                car == last.physics_pre.cars[j]
            IN  /\ last.spawned[k].entry = entry.id
                /\ car.id = last.spawned[k].id
                /\ \/ /\ cfg.geometry_type = "grid"
                      /\ car.position = calculate_donut_entry_position(entry)
                   \/ /\ cfg.geometry_type = "cloverleaf"
                      /\ entry.lane = 13
                      /\ car.position = Vec(0, 0)
                      /\ car.heading = 0

\* C17: once a device call has failed during a tick of the GPU backend, the
\* run is over: the tick counter stays at the tick that failed.
C17_DeviceFailureIsFatal ==
    \A i \in 1..Len(log) :
        log[i].kind = "error" => steps.ticks = log[i].tick

\* a tick has just failed on the device: the host state is the one the traffic
\* manager left, with the cars it spawned in this tick
C17_Witness ==
    /\ last.op = "update_err"
    /\ last.spawned # << >>
    /\ state = last.physics_pre
    /\ steps.ticks < MaxTicks

\* C18: after an update of the sequential backend, whose second half is
\* PhysicsEngine::update, every car's lane_change_progress lies in [0, 1] and
\* no car has a target_lane together with a progress of 1 or more; a car whose
\* computed progress reached 1 while it had a target_lane now drives in that
\* lane with no target_lane, and any other car kept its lanes.
C18_LaneChangeProgress ==
    last.op = "update" /\ last.backend = "Cpu" =>
        /\ Len(state.cars) = Len(last.physics_pre.cars)
        /\ \A i \in 1..Len(state.cars) :
              LET car == state.cars[i]
                  before == last.physics_pre.cars[i]
                  update == last.physics[i]
              IN  /\ car.lane_change_progress \in 0..1000
                  /\ ~(car.target_lane # None /\ car.lane_change_progress >= 1000)
                  /\ IF before.target_lane # None /\ update.lane_change_progress >= 1000
                     THEN /\ car.current_lane = before.target_lane
                          /\ car.target_lane = None
                     ELSE /\ car.current_lane = before.current_lane
                          /\ car.target_lane = before.target_lane
                          /\ car.lane_change_progress = update.lane_change_progress

\* an update has finished a lane change that an earlier tick started: the car
\* entered the physics with a target_lane and a progress strictly between 0
\* and 1, and left it in the target lane
C18_Witness ==
    /\ last.op = "update"
    /\ last.backend = "Cpu"
    /\ \E i \in 1..Len(state.cars) :
          /\ last.physics_pre.cars[i].target_lane # None
          /\ last.physics_pre.cars[i].lane_change_progress \in 1..999
          /\ state.cars[i].current_lane = last.physics_pre.cars[i].target_lane
          /\ state.cars[i].target_lane = None

\* C19: a car whose lane change is under way (target_lane set) started it at
\* most ceil(lane_change_time / dt) ticks after the tick of the request ago.
\* The request stamps last_lane_change_time with the clock, and every tick of
\* the sequential backend advances the clock by dt, so the ticks that have
\* ended since the request, the requesting tick included, are
\* (time - last_lane_change_time) / dt.
C19_LaneChangeCompletes ==
    LET within == (cfg.lane_change_time + state.dt - 1) \div state.dt
    IN  \A i \in 1..Len(state.cars) :
            LET car == state.cars[i]
                ended == (state.time - car.behavior.last_lane_change_time) \div state.dt
            IN  car.target_lane # None => ended - 1 < within

\* on the cloverleaf a tick has requested a lane change of a car and its
\* physics update left the progress at 0
C19_Witness ==
    /\ cfg.geometry_type = "cloverleaf"
    /\ last.op = "update"
    /\ \E i \in 1..Len(last.pre.cars) :
          /\ last.pre.cars[i].target_lane = None
          /\ last.physics_pre.cars[i].id = last.pre.cars[i].id
          /\ last.physics_pre.cars[i].target_lane # None
          /\ state.cars[i].target_lane = last.physics_pre.cars[i].target_lane
          /\ state.cars[i].lane_change_progress = 0

\* C20: every car drives in a lane of the route, 1 <= current_lane <=
\* lane_count, and a target_lane that is set is a lane of the route next to
\* the car's current lane.
C20_LanesInRange ==
    \A i \in 1..Len(state.cars) :
        LET car == state.cars[i]
        IN  /\ car.current_lane \in 1..cfg.lane_count
            /\ car.target_lane # None =>
                  /\ car.target_lane \in 1..cfg.lane_count
                  /\ Abs(car.target_lane - car.current_lane) = 1

\* a car in the outermost lane of the donut, where only the lane to the left
\* exists, is changing lane after a tick that requested the change
C20_Witness ==
    /\ cfg.geometry_type = "donut"
    /\ last.op = "update"
    /\ \E i \in 1..Len(state.cars) :
          /\ state.cars[i].current_lane = cfg.lane_count
          /\ state.cars[i].target_lane = cfg.lane_count - 1
          /\ last.physics_pre.cars[i].target_lane = cfg.lane_count - 1
          /\ \E j \in 1..Len(last.pre.cars) :
                /\ last.pre.cars[j].id = state.cars[i].id
                /\ last.pre.cars[j].target_lane = None

C22_ExitIntentFlagged ==
    [][last'.op = "update" =>
          \A i \in ExitWinners(state, 1, tm.behavior_engine.rng) :
              last'.spawn_pre.cars[i].marked_for_exit]_vars

\* a tick is about to run in which an unmarked car near an exit of its lane
\* wins the draw
C22_Witness ==
    /\ steps.ticks < MaxTicks
    /\ \E i \in ExitWinners(state, 1, tm.behavior_engine.rng) :
          ~state.cars[i].marked_for_exit

\* C23: a car that update_despawning lists for removal without it being at an
\* exit of its lane, that is by the time-based rule, has been in the
\* simulation for more than 600 s: the clock minus its spawn_time exceeds
\* 600 s.
C23_EvictionNeedsResidency ==
    last.op = "update" =>
        \A k \in 1..Len(last.cars_to_remove) :
            \A i \in 1..Len(last.despawn_pre.cars) :
                LET car == last.despawn_pre.cars[i]
                IN  car.id = last.cars_to_remove[k] /\ ~should_car_exit(car) =>
                        last.despawn_pre.time - car.spawn_time > 6000

\* a tick with the clock past 600 s has removed a car that was not at an exit
C23_Witness ==
    /\ last.op = "update"
    /\ last.despawn_pre.time > 6000
    /\ \E i \in 1..Len(last.despawn_pre.cars) :
          LET car == last.despawn_pre.cars[i]
          IN  /\ ~should_car_exit(car)
              /\ \E k \in 1..Len(last.cars_to_remove) : last.cars_to_remove[k] = car.id
              /\ \A j \in 1..Len(state.cars) : state.cars[j].id # car.id

\* C24: in a tick in which the timer of an entry has expired while the closest
\* car was less than 5 m but not less than 3 m from the entry, every car that
\* was within 15 m of the entry has a lower target speed when update_spawning
\* returns than it had when update_spawning began.
C24_GapIsForced ==
    last.op = "update" =>
        \A k \in 1..Len(last.requests) :
            LET entry == last.requests[k].entry
                before == last.spawn_pre.cars
                after == last.despawn_pre.cars
                distance == [i \in 1..Len(before) |-> DistanceToEntry(before[i], entry)]
            IN  /\ \E i \in 1..Len(before) : distance[i] < 50
                /\ \A i \in 1..Len(before) : ~(distance[i] < 30)
                =>
                \A i \in 1..Len(before) :
                    distance[i] < 150 =>
                        after[i].behavior.target_speed < before[i].behavior.target_speed

\* a tick has spawned a car at an entry whose closest car was between 3 m and
\* 5 m away, and that car entered the despawning with the target speed it had
C24_Witness ==
    /\ last.op = "update"
    /\ \E k \in 1..Len(last.requests), s \in 1..Len(last.spawned) :
          \E i \in 1..Len(last.spawn_pre.cars) :
            LET entry == last.requests[k].entry
                car == last.spawn_pre.cars[i]
            IN  /\ last.spawned[s].entry = entry.id
                /\ DistanceToEntry(car, entry) >= 30
                /\ DistanceToEntry(car, entry) < 50
                /\ \A j \in 1..Len(last.spawn_pre.cars) :
                      DistanceToEntry(last.spawn_pre.cars[j], entry) >= 30
                /\ last.despawn_pre.cars[i] = car

\* C25: when update_spawning spawns a car at an entry, no car that exists at
\* that moment is within 3 m of the entry: neither a car that was in the state
\* when update_spawning began nor a car spawned earlier in the same tick.
\* (Spawning appends to the list of cars and moves no car, so the cars that
\* exist at the s-th spawn are the first Len(spawn_pre.cars) + s - 1 cars of
\* the state update_spawning returns.)
C25_HardFloorRespected ==
    last.op = "update" =>
        \A s \in 1..Len(last.spawned) :
            \A k \in 1..Len(cfg.entries) :
                cfg.entries[k].id = last.spawned[s].entry =>
                    \A i \in 1..(Len(last.spawn_pre.cars) + s - 1) :
                        DistanceToEntry(last.despawn_pre.cars[i], cfg.entries[k]) >= 30

\* a tick has spawned a car at an entry on a supported geometry while a car
\* that was already in the state stood between 2 m and 3 m from the entry
C25_Witness ==
    /\ last.op = "update"
    /\ cfg.geometry_type = "donut"
    /\ \E s \in 1..Len(last.spawned), k \in 1..Len(cfg.entries) :
          /\ cfg.entries[k].id = last.spawned[s].entry
          /\ \E i \in 1..Len(last.spawn_pre.cars) :
                /\ DistanceToEntry(last.spawn_pre.cars[i], cfg.entries[k]) >= 20
                /\ DistanceToEntry(last.spawn_pre.cars[i], cfg.entries[k]) < 30

\* C26: the state PhysicsEngine::update leaves holds, for every car id, the
\* same car whatever the order in which the cars were listed in the state it
\* was called on.
C26_OrderIndependent ==
    last.op = "physics" =>
        \A p \in Orders(1..Len(last.pre.cars)) :
            LET permuted == [last.pre EXCEPT
                                !.cars = [k \in 1..Len(p) |-> last.pre.cars[p[k]]]]
                other == PhysicsEngine_update(permuted).state
            IN  {other.cars[k] : k \in 1..Len(other.cars)}
                    = {state.cars[i] : i \in 1..Len(state.cars)}

\* the update ran on a state in which two cars of different speeds were the
\* same distance ahead of a third car
C26_Witness ==
    /\ last.op = "physics"
    /\ \E i, j, k \in 1..Len(last.pre.cars) :
          /\ j # k
          /\ find_front_car(last.pre.cars[i], last.pre).distance # None
          /\ FrontArcDistance(last.pre.cars[i], last.pre.cars[j])
                 = find_front_car(last.pre.cars[i], last.pre).distance
          /\ FrontArcDistance(last.pre.cars[i], last.pre.cars[k])
                 = find_front_car(last.pre.cars[i], last.pre).distance
          /\ last.pre.cars[j].current_lane = last.pre.cars[i].current_lane
          /\ last.pre.cars[k].current_lane = last.pre.cars[i].target_lane
          /\ Speed(last.pre.cars[j]) # Speed(last.pre.cars[k])

\* C27: the state a tick of the GPU backend leaves does not depend on how the
\* work-items of the kernel were interleaved: with every car inside the
\* buffer, each schedule of the work-items applied to the state the traffic
\* manager handed over gives the state the tick produced.
C27_KernelScheduleIndependent ==
    (/\ last.op = "update"
     /\ last.backend = "Gpu"
     /\ Len(last.physics_pre.cars) <= max_cars) =>
        \A schedule \in Schedules(Len(last.physics_pre.cars)) :
            GpuPhysics(last.physics_pre, schedule, GpuCar_default) = state

\* a tick of the GPU backend ran the kernel on two cars of which one is the
\* front car of the other, both inside the buffer
C27_Witness ==
    /\ last.op = "update"
    /\ last.backend = "Gpu"
    /\ Len(last.physics_pre.cars) \in 2..max_cars
    /\ \E i \in 1..Len(last.physics_pre.cars) :
          KernelFrontScan(upload_cars_to_gpu(last.physics_pre), i,
                          Len(last.physics_pre.cars)).distance # None

\* C28: spawn_manual_car called on a state whose active_cars has reached
\* total_cars creates no car: the state is left as it was.
C28_ManualSpawnKeepsCap ==
    (last.op = "spawn_manual_car" /\ last.pre.active_cars >= cfg.total_cars) =>
        /\ ~last.spawned
        /\ state = last.pre

\* spawn_manual_car was called with exactly total_cars cars in the state and
\* the first entry clear of cars
C28_Witness ==
    /\ last.op = "spawn_manual_car"
    /\ cfg.entries # << >>
    /\ last.pre.active_cars = cfg.total_cars
    /\ Len(last.pre.cars) = cfg.total_cars
    /\ can_spawn_at_entry_permissive(cfg.entries[1], last.pre)
    /\ state.active_cars = cfg.total_cars + 1

\* C29: whenever a tick of the GPU backend uses the device (the state the
\* traffic manager hands over holds cars), the cars fit the car buffer:
\* their number is at most max_cars.
C29_CarsFitBuffer ==
    (/\ last.op = "update"
     /\ last.backend = "Gpu"
     /\ last.physics_pre.cars # << >>) =>
        Len(last.physics_pre.cars) <= max_cars

\* a tick of the GPU backend launched the kernel for more cars than the buffer
\* has slots, and the car past the buffer came out of the tick as it went in
C29_Witness ==
    /\ last.op = "update"
    /\ last.backend = "Gpu"
    /\ Len(last.physics_pre.cars) > max_cars
    /\ state.cars[max_cars + 1] = last.physics_pre.cars[max_cars + 1]
    /\ state.cars[1] # last.physics_pre.cars[1]

====
